---- MODULE Spec2Model ----
(***************************************************************************)
(* Model of the arbitrage monitor (arbitrage_monitor crate): the detector  *)
(* detect_arbitrage, the two venue clients, the startup of main and its    *)
(* merge loop.                                                             *)
(*                                                                         *)
(* Numbers.  Every f64 of the program is represented by the integer        *)
(* x * Scale (fixed point, three decimals), so 0.62 is 620 and 3.0 cents   *)
(* is 3000.  Products and quotients by the literal 100.0 are exact on this *)
(* representation.  A quotient of two f64 values (profit_pct) is kept as   *)
(* the exact fraction [num, den].  Rounding of f64 arithmetic is not       *)
(* modelled.  An i32 is a plain integer.                                   *)
(***************************************************************************)
EXTENDS Integers, Sequences, FiniteSets, TLC

VARIABLES
    \* ---- main (main.rs:111-333) ----
    pc,                      \* position of main: "env", "key", "resolve_polymarket",
                             \* "resolve_kalshi", "connect", "loop", "join", "sleep", "exited"
    k_pc,                    \* position of kalshi_future: "idle", "gate", "fetch", "done"
    p_pc,                    \* position of polymarket_future: "idle", "read", "reconnect", "done"
    env,                     \* the required environment variables that are set (main.rs:116-143)
    key_file,                \* what is at KALSHI_PRIVATE_KEY_PATH (auth.rs:14-28)
    exit_cause,              \* "none", or why main returned
    verbose,                 \* VERBOSE flag (main.rs:126)
    kalshi_interval,         \* poll interval, in units of the push-read timeout (main.rs:248)
    last_kalshi_market,      \* Option<KalshiMarket> (main.rs:220)
    last_polymarket_market,  \* Option<PolymarketMarket> (main.rs:221)
    kalshi_result,           \* value of kalshi_future (main.rs:257-271)
    polymarket_result,       \* value of polymarket_future (main.rs:274-292)
    ws_stream,               \* PolymarketClient.ws_stream: "none", "open" or "dead"
    kalshi_elapsed,          \* last_kalshi_fetch.elapsed(), saturating at kalshi_interval
    display_due,             \* last_display_time.elapsed() >= display_interval (main.rs:310)
    read_wait,               \* time the current bounded push read has waited
    iter_count,              \* main.rs:251
    \* ---- two clocks main does not keep (observation only), saturating like kalshi_elapsed ----
    since_attempt,           \* time since get_market was last called, or since the loop began
    since_success,           \* time since get_market last returned Ok, or since the loop began
    \* ---- the last quote each venue has produced (observation only) ----
    asset_id,                \* PolymarketClient.asset_id (client.rs:32), "" until the slug
                             \* is resolved (main.rs:170)
    sent,                    \* the messages sent on the connection ws_stream holds
    latest_kalshi,           \* Option: the market of the last get_market that returned Ok
    latest_polymarket,       \* Option: the quote of the last read_next_book that returned Ok
    \* ---- what the current tick has done (observation only) ----
    prev_kalshi,             \* last_kalshi_market when the tick began
    prev_polymarket,         \* last_polymarket_market when the tick began
    prev_ws_stream,          \* ws_stream when the tick began
    pull_outcome,            \* "none", "skipped", "ok", "err"
    push_outcome,            \* "none", "ok", "err", "timeout"
    connect_calls,           \* connect() calls made by this tick
    connect_outcome,         \* "none", "ok", "err": result of this tick's connect()
    reported,                \* error lines this tick has printed (main.rs:264, 281-282, 286)
    push_input,              \* Option: the book message this tick's push read returned on
    shown_markets,           \* display_markets calls made by this tick
    shown_arb,               \* Option: the argument of this tick's display_arbitrage call
    detect_args,             \* Option: the two quotes this tick handed to detect_arbitrage
    \* ---- detector harness (specification SpecDetect) ----
    d_pc,            \* "off", "input", "detected", "swapped"
    d_kalshi,        \* the KalshiMarket handed to detect_arbitrage
    d_poly,          \* the PolymarketMarket handed to detect_arbitrage
    d_result,        \* detect_arbitrage(d_kalshi, d_poly), once d_pc is past "input"
    d_swapped,       \* detect_arbitrage on the two quotes exchanged, once d_pc = "swapped"
    \* ---- client harness (specifications SpecRead and SpecFetch) ----
    c_pc,            \* "off", "input", "returned"
    c_input,         \* the frames on the stream (SpecRead); the two responses (SpecFetch)
    c_result         \* what the call returned, once c_pc = "returned"

d_vars == <<d_pc, d_kalshi, d_poly, d_result, d_swapped>>

c_vars == <<c_pc, c_input, c_result>>

\* The variables of the two harnesses, which main never touches.
h_vars == <<d_vars, c_vars>>

\* env, key_file, verbose and kalshi_interval are fixed when the process starts.
cfg_vars == <<env, key_file, verbose, kalshi_interval>>

\* The last successful result of each venue, which main does not keep apart
\* from its cache.
latest_vars == <<latest_kalshi, latest_polymarket>>

\* The asset the client subscribes to and what it has sent on its connection.
conn_vars == <<asset_id, sent>>

loop_vars == <<pc, k_pc, p_pc, cfg_vars, exit_cause, last_kalshi_market,
               last_polymarket_market, kalshi_result, polymarket_result, ws_stream,
               kalshi_elapsed, display_due, read_wait, iter_count,
               since_attempt, since_success, latest_vars, conn_vars>>

tick_vars == <<prev_kalshi, prev_polymarket, prev_ws_stream, pull_outcome, push_outcome,
               connect_calls, connect_outcome, reported, push_input,
               shown_markets, shown_arb, detect_args>>

vars == <<loop_vars, tick_vars, h_vars>>

\* Option<T>: None is the empty sequence, Some(x) the one-element sequence.
None == <<>>
Some(x) == <<x>>
IsSome(o) == Len(o) = 1
Unwrap(o) == o[1]

\* Fixed-point scale of the f64 representation (units per 1.0).
Scale == 10 * 100

\* `x as f64` for an i32 x.
AsF64(x) == x * Scale

\* `x / 100.0` on the representation (exact: Scale is a multiple of 100).
Div100(x) == x \div 100

\* `x * 100.0` on the representation.
Mul100(x) == x * 100

\* `(a / b) * 100.0` for two f64 values: the exact fraction a*100 / b.
PctOf(a, b) == [num |-> a * 100, den |-> b]

\* ArbitrageOpportunity (arbitrage.rs:5-12)
ArbitrageOpportunity(buy_platform, sell_platform, buy_price, sell_price, profit_cents, profit_pct) ==
    [buy_platform |-> buy_platform, sell_platform |-> sell_platform,
     buy_price |-> buy_price, sell_price |-> sell_price,
     profit_cents |-> profit_cents, profit_pct |-> profit_pct]

\* Faulty variants of detect_arbitrage, one per `fault`:
\*   "noguard"     the two `ask > 0.0` tests are missing
\*   "second1st"   the Kalshi-buy branch is tested before the Polymarket-buy branch
\*   "firstonly"   the Kalshi-buy branch is missing
\*   "ge"          the first comparison is >= instead of >
\*   "pctsell2"    the second branch divides the profit by the sell price
\*   "pctsell1"    the first branch divides the profit by the sell price
\*   "buybid2"     the second branch buys at Kalshi's bid instead of its ask
detect_variant(kalshi, polymarket, fault) ==
    LET kalshi_bid == Div100(AsF64(kalshi.yes_bid))
        kalshi_ask == Div100(AsF64(kalshi.yes_ask))
        poly_bid == polymarket.best_bid
        poly_ask == polymarket.best_ask
        guard1 == fault = "noguard" \/ poly_ask > 0
        guard2 == fault = "noguard" \/ kalshi_ask > 0
        cross1 == IF fault = "ge" THEN kalshi_bid >= poly_ask ELSE kalshi_bid > poly_ask
        cond1 == cross1 /\ guard1
        cond2 == fault # "firstonly" /\ poly_bid > kalshi_ask /\ guard2
        first == LET profit == kalshi_bid - poly_ask
                 IN  Some(ArbitrageOpportunity("Polymarket", "Kalshi", poly_ask, kalshi_bid,
                          Mul100(profit),
                          PctOf(profit, IF fault = "pctsell1" THEN kalshi_bid ELSE poly_ask)))
        second == LET profit == poly_bid - kalshi_ask
                  IN  Some(ArbitrageOpportunity("Kalshi", "Polymarket",
                           IF fault = "buybid2" THEN kalshi_bid ELSE kalshi_ask, poly_bid,
                           Mul100(profit),
                           PctOf(profit, IF fault = "pctsell2" THEN poly_bid ELSE kalshi_ask)))
    IN  IF fault = "second1st"
        THEN (IF cond2 THEN second ELSE IF cond1 THEN first ELSE None)
        ELSE (IF cond1 THEN first ELSE IF cond2 THEN second ELSE None)

detect_arbitrage_noguard(kalshi, polymarket) == detect_variant(kalshi, polymarket, "noguard")
detect_arbitrage_second1st(kalshi, polymarket) == detect_variant(kalshi, polymarket, "second1st")
detect_arbitrage_firstonly(kalshi, polymarket) == detect_variant(kalshi, polymarket, "firstonly")
detect_arbitrage_ge(kalshi, polymarket) == detect_variant(kalshi, polymarket, "ge")
detect_arbitrage_pctsell1(kalshi, polymarket) == detect_variant(kalshi, polymarket, "pctsell1")
detect_arbitrage_pctsell2(kalshi, polymarket) == detect_variant(kalshi, polymarket, "pctsell2")
detect_arbitrage_buybid2(kalshi, polymarket) == detect_variant(kalshi, polymarket, "buybid2")

\* detect_arbitrage (arbitrage.rs:15-57)
detect_arbitrage(kalshi, polymarket) ==
    LET kalshi_bid == Div100(AsF64(kalshi.yes_bid))
        kalshi_ask == Div100(AsF64(kalshi.yes_ask))
        poly_bid == polymarket.best_bid
        poly_ask == polymarket.best_ask
    IN  IF kalshi_bid > poly_ask /\ poly_ask > 0
        THEN LET profit == kalshi_bid - poly_ask
                 profit_pct == PctOf(profit, poly_ask)
             IN  Some(ArbitrageOpportunity("Polymarket", "Kalshi", poly_ask, kalshi_bid,
                                           Mul100(profit), profit_pct))
        ELSE IF poly_bid > kalshi_ask /\ kalshi_ask > 0
        THEN LET profit == poly_bid - kalshi_ask
                 profit_pct == PctOf(profit, kalshi_ask)
             IN  Some(ArbitrageOpportunity("Kalshi", "Polymarket", kalshi_ask, poly_bid,
                                           Mul100(profit), profit_pct))
        ELSE None

\* ---------------------------------------------------------------------------
\* Polymarket client (polymarket/client.rs)

\* f64::NAN on the representation: a value outside the range of the numbers.
NaN == 0 - Scale * Scale

\* str::parse::<f64>() of a level's price string.  A string is [ok, val]: a
\* string the parse accepts, with val its value times Scale or NaN (the parse
\* accepts the text "NaN"), or (ok = FALSE) text the parse rejects.
parse_f64(s) == IF s.ok THEN Some(s.val) ELSE None

\* f64::partial_cmp: None when either operand is NaN.
partial_cmp(a, b) ==
    IF a = NaN \/ b = NaN THEN None
    ELSE IF a < b THEN Some("Less")
    ELSE IF a > b THEN Some("Greater")
    ELSE Some("Equal")

\* Option::unwrap_or
unwrap_or(o, dflt) == IF IsSome(o) THEN Unwrap(o) ELSE dflt

\* The comparator of bids.sort_by / asks.sort_by (client.rs:131-142): TRUE when
\* level a must come strictly before level b.
LevelBefore(a, b, descending) ==
    LET a_p == unwrap_or(parse_f64(a.price), 0)
        b_p == unwrap_or(parse_f64(b.price), 0)
        ordering == IF descending THEN unwrap_or(partial_cmp(b_p, a_p), "Equal")
                                  ELSE unwrap_or(partial_cmp(a_p, b_p), "Equal")
    IN  ordering = "Less"

\* slice::sort_by is a stable sort: an element is placed after every element
\* already placed that it does not come strictly before.
RECURSIVE InsertLevel(_, _, _)
InsertLevel(sorted, x, descending) ==
    IF sorted = <<>> THEN <<x>>
    ELSE IF LevelBefore(x, Head(sorted), descending)
         THEN <<x>> \o sorted
         ELSE <<Head(sorted)>> \o InsertLevel(Tail(sorted), x, descending)

RECURSIVE SortLevels(_, _)
SortLevels(levels, descending) ==
    IF levels = <<>> THEN <<>>
    ELSE InsertLevel(SortLevels(SubSeq(levels, 1, Len(levels) - 1), descending),
                     levels[Len(levels)], descending)

\* The comparator is a total order on the levels (levels it calls Equal
\* are ordered alike against every other level): it is one unless a price
\* is NaN, which partial_cmp(..).unwrap_or(Equal) calls Equal to every price.
ComparatorTotal(levels, descending) ==
    \A i, j, k \in DOMAIN levels :
        LET Same(a, b) == ~LevelBefore(a, b, descending) /\ ~LevelBefore(b, a, descending)
        IN  (Same(levels[i], levels[j]) /\ Same(levels[j], levels[k]))
                => Same(levels[i], levels[k])

\* The orders slice::sort_by can leave the levels in: the stable sort when
\* the comparator is a total order, and otherwise an order the library does
\* not specify, any arrangement of the levels.
sort_by(levels, descending) ==
    IF ComparatorTotal(levels, descending)
    THEN { SortLevels(levels, descending) }
    ELSE { [i \in DOMAIN levels |-> levels[f[i]]] : f \in Permutations(DOMAIN levels) }

\* first().and_then(|l| l.price.parse::<f64>().ok()).unwrap_or(0.0)  (client.rs:145-151)
BestPrice(levels) ==
    IF levels = <<>> THEN 0 ELSE unwrap_or(parse_f64(Head(levels).price), 0)

\* serde_json::from_value::<Vec<OrderbookLevel>>(data["bids"].clone())
\* .unwrap_or_default() (client.rs:122-128).  A field of a message is
\* [shape, levels]: shape "array" is an array of {price: string, size: string}
\* with the given levels; "missing" is an absent field (Value::Null) and
\* "malformed" any other value, for both of which from_value fails.
from_value_or_default(field) == IF field.shape = "array" THEN field.levels ELSE <<>>

\* PolymarketClient::parse_orderbook (client.rs:121-160) on any message: the
\* quotes it can return, one for each order sort_by can leave each side in.
parse_orderbook_results(data) ==
    { [best_bid |-> BestPrice(bids), best_ask |-> BestPrice(asks),
       bids |-> bids, asks |-> asks] :
          bids \in sort_by(from_value_or_default(data.bids), TRUE),
          asks \in sort_by(from_value_or_default(data.asks), FALSE) }

\* PolymarketClient::parse_orderbook (client.rs:121-160); data is a message
\* with its bids and asks fields, no price of which is NaN, so that the
\* comparator is a total order.  It returns Ok on every input.
parse_orderbook(data) ==
    LET bids == SortLevels(from_value_or_default(data.bids), TRUE)
        asks == SortLevels(from_value_or_default(data.asks), FALSE)
    IN  [best_bid |-> BestPrice(bids), best_ask |-> BestPrice(asks),
         bids |-> bids, asks |-> asks]

\* The subscribe message (client.rs:60-64).
subscribe_msg(id) == [auth |-> {}, assets_ids |-> <<id>>, type |-> "MARKET"]

\* Faulty variant: a failed connect() drops the handle the client had.
connect_drop(client, outcome) ==
    IF outcome = "ok"
    THEN [ok |-> TRUE, ws_stream |-> "open", sent |-> <<subscribe_msg(client.asset_id)>>]
    ELSE [ok |-> FALSE, ws_stream |-> "none", sent |-> <<>>]

\* Faulty variant: the result of the subscribe send is ignored.
connect_unchecked(client, outcome) ==
    IF outcome = "ok"
    THEN [ok |-> TRUE, ws_stream |-> "open", sent |-> <<subscribe_msg(client.asset_id)>>]
    ELSE IF outcome = "send_err"
    THEN [ok |-> TRUE, ws_stream |-> "open", sent |-> <<>>]
    ELSE [ok |-> FALSE, ws_stream |-> client.ws_stream, sent |-> client.sent]

\* PolymarketClient::connect (client.rs:51-75) on client = [ws_stream,
\* asset_id, sent], by what connect_async and the subscribe send met: "ok",
\* "connect_err" (client.rs:53-55) or "send_err" (client.rs:66-69).  Result is
\* [ok, ws_stream, sent]: whether connect() returned Ok, the handle the client
\* holds afterwards, and the messages sent on that handle's connection.
connect(client, outcome) ==
    IF outcome = "ok"
    THEN [ok |-> TRUE, ws_stream |-> "open", sent |-> <<subscribe_msg(client.asset_id)>>]
    ELSE [ok |-> FALSE, ws_stream |-> client.ws_stream, sent |-> client.sent]

\* Faulty variant: the "type" field is consulted before "event_type".
event_type_typefirst(msg_data) ==
    IF IsSome(msg_data.type) THEN msg_data.type ELSE msg_data.event_type

\* msg_data["event_type"].as_str().or_else(|| msg_data["type"].as_str())
\* (client.rs:99-100).  A field is Some(text) when it is a JSON string and None
\* when it is absent or no string.
event_type(msg_data) ==
    IF IsSome(msg_data.event_type) THEN msg_data.event_type ELSE msg_data.type

\* The messages of a decoded text frame (client.rs:92-96): the elements of an
\* array, or the one value.
messages_of(data) == IF data.is_array THEN data.value ELSE <<data.value>>

\* for msg_data in messages { if event_type == Some("book") { return ... } }
\* (client.rs:98-105): the message the loop returns on, if any.
RECURSIVE first_book(_)
first_book(messages) ==
    IF messages = <<>> THEN None
    ELSE IF event_type(Head(messages)) = Some("book") THEN Some(Head(messages))
    ELSE first_book(Tail(messages))

\* The `while let Some(msg) = ws_stream.next().await` loop (client.rs:83-118)
\* over the frames the stream delivers, in arrival order.  A frame is a text
\* frame (json: None when the text is no JSON), a close frame, a stream error,
\* any other frame (ping, pong, binary), or "end": next() returns None.
\* Result: "ok" with the quote and the message it was parsed from, "err", or
\* "pending" when every frame was consumed and next() is still awaited.
RECURSIVE read_frames(_)
read_frames(frames) ==
    IF frames = <<>>
    THEN [kind |-> "pending", market |-> None, from |-> None]
    ELSE LET frame == Head(frames)
         IN  IF frame.kind = "text"
             THEN IF IsSome(frame.json)
                  THEN LET book == first_book(messages_of(Unwrap(frame.json)))
                       IN  IF IsSome(book)
                           THEN [kind |-> "ok",
                                 market |-> Some(parse_orderbook(Unwrap(book))),
                                 from |-> book]
                           ELSE read_frames(Tail(frames))
                  ELSE read_frames(Tail(frames))
             ELSE IF frame.kind \in {"close", "error", "end"}
             THEN [kind |-> "err", market |-> None, from |-> None]
             ELSE read_frames(Tail(frames))

\* PolymarketClient::read_next_book (client.rs:78-119) on a stream that
\* delivers `frames`.  Without a connection it fails at once (client.rs:79-80);
\* a stream that has closed or failed delivers nothing more.  Result is
\* [kind, ok, market, from, stream].
read_next_book(stream, frames) ==
    IF stream = "none"
    THEN [kind |-> "err", ok |-> FALSE, market |-> None, from |-> None, stream |-> stream]
    ELSE IF stream = "dead"
    THEN [kind |-> "err", ok |-> FALSE, market |-> None, from |-> None, stream |-> "dead"]
    ELSE LET r == read_frames(frames)
         IN  [kind |-> r.kind, ok |-> r.kind = "ok", market |-> r.market, from |-> r.from,
              stream |-> IF r.kind = "err" THEN "dead" ELSE stream]

\* ---------------------------------------------------------------------------
\* Kalshi client (kalshi/client.rs)

\* KalshiClient::get_orderbook (client.rs:108-148): Ok(orderbook) or Err.
get_orderbook(ob_resp) ==
    IF ob_resp.kind = "ok" THEN [ok |-> TRUE, orderbook |-> ob_resp.orderbook]
    ELSE [ok |-> FALSE, orderbook |-> None]

\* Faulty variant: a failed orderbook request fails the whole fetch.
get_market_strict(resp, ob_resp) ==
    IF resp.kind # "ok" \/ ob_resp.kind # "ok"
    THEN [ok |-> FALSE, market |-> None]
    ELSE [ok |-> TRUE,
          market |-> Some([Unwrap(resp.market) EXCEPT !.orderbook = ob_resp.orderbook])]

\* KalshiClient::get_market (client.rs:64-105): resp is the outcome of the
\* market request, ob_resp that of the orderbook request.
get_market(resp, ob_resp) ==
    IF resp.kind # "ok"
    THEN [ok |-> FALSE, market |-> None]
    ELSE LET market == Unwrap(resp.market)
             ob == get_orderbook(ob_resp)
         IN  [ok |-> TRUE,
              market |-> Some(IF ob.ok THEN [market EXCEPT !.orderbook = ob.orderbook]
                                       ELSE market)]

\* ---------------------------------------------------------------------------
\* Inputs of the model

\* Largest poll interval of a run, in units of the push-read timeout.
MaxPollInterval == 1

\* tokio::time::timeout(Duration::from_millis(500), ...): the unit of time.
PushTimeoutMs == 500

\* The bounded push read elapses after one unit.
read_timeout == PushTimeoutMs \div PushTimeoutMs

\* iter_count >= 10
IterLimit == 10

Str(v) == [ok |-> TRUE, val |-> v]
BadStr == [ok |-> FALSE, val |-> 0]
Level(price, size) == [price |-> price, size |-> size]
KalshiMarket(yes_bid, yes_ask) == [yes_bid |-> yes_bid, yes_ask |-> yes_ask, orderbook |-> None]

\* A bids or asks field of a push message: an array of levels, an absent
\* field, or a value that is no array of {price: string, size: string}.
Arr(levels) == [shape |-> "array", levels |-> levels]
Missing == [shape |-> "missing", levels |-> <<>>]
Malformed == [shape |-> "malformed", levels |-> <<>>]

\* A JSON object of the push feed with its two tag fields and its two sides.
Msg(tag_event_type, tag_type, bids, asks) ==
    [event_type |-> tag_event_type, type |-> tag_type, bids |-> bids, asks |-> asks]

\* The frames a stream can deliver (tungstenite Message, client.rs:84-115).
TextOne(msg) == [kind |-> "text", json |-> Some([is_array |-> FALSE, value |-> msg])]
TextArray(msgs) == [kind |-> "text", json |-> Some([is_array |-> TRUE, value |-> msgs])]
TextNoJson == [kind |-> "text", json |-> None]
Frame(kind) == [kind |-> kind, json |-> None]

\* Markets the pull venue answers with, and the depth of its second request.
FeedKalshiMarkets == {KalshiMarket(60, 62)}
FeedOrderbook == [yes |-> <<<<60, 10>>>>, no |-> <<<<38, 5>>>>]

\* Book messages the push venue sends: three whose sides are arrays of levels,
\* and one whose bids field is no array.
FeedBooks ==
    { Msg(Some("book"), None, Arr(<<Level(Str(480), 1)>>), Arr(<<Level(Str(520), 1)>>)),
      Msg(Some("book"), None, Arr(<<Level(Str(640), 1), Level(Str(650), 2)>>),
          Arr(<<Level(Str(630), 1)>>)),
      Msg(Some("book"), None, Arr(<<>>), Arr(<<>>)),
      Msg(Some("book"), None, Malformed, Arr(<<Level(Str(630), 1)>>)) }

\* A message of another type, which carries no sides.
PriceChange == Msg(Some("price_change"), None, Missing, Missing)

\* Outcomes of the market request and of the orderbook request.
MarketResponses ==
    { [kind |-> k, market |-> None] : k \in {"send_err", "status_err", "decode_err"} }
    \cup { [kind |-> "ok", market |-> Some(m)] : m \in FeedKalshiMarkets }
OrderbookResponses ==
    { [kind |-> "err", orderbook |-> None], [kind |-> "ok", orderbook |-> Some(FeedOrderbook)] }

\* What a push read can meet on the stream before it returns: a book message,
\* alone or behind frames the read skips, or the end of the connection.
EmptyBook == Msg(Some("book"), None, Arr(<<>>), Arr(<<>>))
PushEvents ==
    { <<TextOne(b)>> : b \in FeedBooks }
    \cup { <<Frame("other"), TextNoJson, TextArray(<<PriceChange, b>>)>> : b \in FeedBooks }
    \cup { <<Frame(k)>> : k \in {"close", "error", "end"} }
    \cup { <<TextNoJson, Frame("close")>> }

\* ---------------------------------------------------------------------------
\* main (main.rs:111-333)

Min(a, b) == IF a < b THEN a ELSE b

\* Faulty variant: the cache entry is assigned the branch's result as it is.
ProcessUpdate_assign(last, result) == result

\* Faulty variant: an entry that is present is never replaced.
ProcessUpdate_firstwins(last, result) == IF IsSome(last) THEN last ELSE result

\* if let Some(market) = result { last = Some(market); }   (main.rs:298-303)
ProcessUpdate(last, result) == IF IsSome(result) THEN result ELSE last

\* Faulty variant: the Kalshi entry is updated only in a tick whose push read
\* delivered a quote too.
ProcessUpdates_coupled(last_k, last_p, k_result, p_result) ==
    [kalshi |-> IF IsSome(p_result) THEN ProcessUpdate(last_k, k_result) ELSE last_k,
     polymarket |-> ProcessUpdate(last_p, p_result)]

\* The process-updates step (main.rs:297-303): each entry is updated from the
\* result of its own branch.
ProcessUpdates(last_k, last_p, k_result, p_result) ==
    [kalshi |-> ProcessUpdate(last_k, k_result),
     polymarket |-> ProcessUpdate(last_p, p_result)]

\* should_display (main.rs:307-311)
ShouldDisplay(v, count, due) ==
    IF v THEN TRUE ELSE count >= IterLimit \/ due

\* Faulty variant: the opportunity is shown only on a tick that displays the state.
DisplayAndDetect_throttled(k_opt, p_opt, should_display) ==
    IF IsSome(k_opt) /\ IsSome(p_opt)
    THEN [markets |-> IF should_display THEN 1 ELSE 0,
          arb |-> IF should_display THEN detect_arbitrage(Unwrap(k_opt), Unwrap(p_opt))
                                    ELSE None,
          detect |-> IF should_display THEN Some(<<Unwrap(k_opt), Unwrap(p_opt)>>) ELSE None]
    ELSE [markets |-> 0, arb |-> None, detect |-> None]

\* Faulty variant: the state is displayed as soon as one venue has a quote.
DisplayAndDetect_eager(k_opt, p_opt, should_display) ==
    IF IsSome(k_opt) /\ IsSome(p_opt)
    THEN LET opportunity == detect_arbitrage(Unwrap(k_opt), Unwrap(p_opt))
         IN  [markets |-> IF should_display \/ IsSome(opportunity) THEN 1 ELSE 0,
              arb |-> opportunity,
              detect |-> Some(<<Unwrap(k_opt), Unwrap(p_opt)>>)]
    ELSE [markets |-> IF IsSome(k_opt) \/ IsSome(p_opt) THEN 1 ELSE 0, arb |-> None,
          detect |-> None]

\* The calls one tick makes once both entries are present (main.rs:306-328):
\* [markets, arb, detect], the display_markets calls, the opportunity handed to
\* display_arbitrage, and the two quotes handed to detect_arbitrage.
DisplayAndDetect(k_opt, p_opt, should_display) ==
    IF IsSome(k_opt) /\ IsSome(p_opt)
    THEN LET opportunity == detect_arbitrage(Unwrap(k_opt), Unwrap(p_opt))
         IN  [markets |-> IF should_display \/ IsSome(opportunity) THEN 1 ELSE 0,
              arb |-> opportunity,
              detect |-> Some(<<Unwrap(k_opt), Unwrap(p_opt)>>)]
    ELSE [markets |-> 0, arb |-> None, detect |-> None]

\* Faulty variant: a read error is dropped like a timeout, without reconnecting.
AfterRead_noreconnect(r) == "done"

\* The arm taken on the result r of the bounded read (main.rs:279-289).
AfterRead(r) == IF r.ok THEN "done" ELSE "reconnect"

\* The arm taken on the result of the inline connect() (main.rs:285-288).
AfterReconnect(ok) == "done"

\* Faulty variant: an elapsed bound is handled like a read error.
AfterTimeout_reconnect == "reconnect"

\* The arm taken when the bound elapses: Err(_) => None (main.rs:290).
AfterTimeout == "done"

\* Where main is after get_market returned r: both arms of the match yield a
\* value of kalshi_future (main.rs:261-267), so main stays at the join.
FetchContinuation(r) == "join"

\* Faulty variant: a failed reconnect is propagated out of main with `?`.
ReconnectContinuation_propagate(ok) == IF ok THEN "join" ELSE "exited"

\* Where main is after the inline connect() returned: its Err is printed
\* (main.rs:285-287) and the future yields None.
ReconnectContinuation(ok) == "join"

\* Faulty variant: the timestamp is taken only when the fetch has succeeded.
FetchStamp_onsuccess(elapsed, since) == since

\* Faulty variant: the timestamp of the fetch is never taken.
FetchStamp_keep(elapsed, since) == elapsed

\* last_kalshi_fetch = Instant::now() (main.rs:259), executed before get_market
\* is awaited: the elapsed time the gate reads next is counted from here.
FetchStamp(elapsed, since) == 0

\* The required variables, in the order main reads them (main.rs:116-143).
RequiredVars == <<"KALSHI_API_KEY", "KALSHI_PRIVATE_KEY_PATH", "POLYMARKET_SLUG", "KALSHI_TICKER">>
RequiredSet == { RequiredVars[i] : i \in DOMAIN RequiredVars }

\* Why main has returned: the step that failed, the failure, and the value
\* main returned ("err" for a propagated error, "ok" for `return Ok(())`).
NoExit == [step |-> "none", error |-> "none", result |-> "none"]
Exit(step, error, result) == [step |-> step, error |-> error, result |-> result]

\* env::var(NAME).context(...)? for each required variable (main.rs:116-119,
\* 140-143): the first one that is not set ends main with an error.
read_env(e) ==
    IF \E i \in DOMAIN RequiredVars : RequiredVars[i] \notin e
    THEN [ok |-> FALSE,
          missing |-> RequiredVars[CHOOSE i \in DOMAIN RequiredVars :
                          /\ RequiredVars[i] \notin e
                          /\ \A j \in 1..(i - 1) : RequiredVars[j] \in e]]
    ELSE [ok |-> TRUE, missing |-> "none"]

\* Faulty variant: a file that holds no key yields a key all the same.
load_private_key_lenient(file) ==
    IF file = "unreadable" THEN [ok |-> FALSE, error |-> "read"]
    ELSE [ok |-> TRUE, error |-> "none"]

\* kalshi::auth::load_private_key (auth.rs:14-28).  The file is "unreadable",
\* or holds a "pkcs1" PEM key, a "pkcs8" PEM key, or "garbage".
load_private_key(file) ==
    IF file = "unreadable" THEN [ok |-> FALSE, error |-> "read"]
    ELSE IF file = "pkcs1" THEN [ok |-> TRUE, error |-> "none"]
    ELSE IF file = "pkcs8" THEN [ok |-> TRUE, error |-> "none"]
    ELSE [ok |-> FALSE, error |-> "parse"]

KeyFiles == {"unreadable", "pkcs1", "pkcs8", "garbage"}

\* Outcomes of polymarket::get_asset_id_and_anchor (slug.rs) and of
\* KalshiClient::resolve_market_ticker (client.rs:153-225): Ok, or the
\* failure that made it return Err.
PolymarketResolutions == {"ok", "bad_slug", "send_err", "status_err", "decode_err", "no_market"}
KalshiResolutions == {"ok", "send_err", "status_err", "decode_err", "no_market"}

\* The asset ids get_asset_id_and_anchor can resolve the slug to.
AssetIds == {"token-1"}

\* Outcomes of connect(): Ok, connect_async failed, or the subscribe send failed.
ConnectOutcomes == {"ok", "connect_err", "send_err"}

\* Faulty variant: main goes on after a failed step.
StartupArm_continue(outcome, next) == next

\* The arm main takes on the outcome of a resolution or of the first
\* connect() (main.rs:170-183, 188-200, 229-240): Err(e) => return Ok(()).
StartupArm(outcome, next) == IF outcome = "ok" THEN next ELSE "exited"

\* The required variables are read (main.rs:116-143).
ReadEnv ==
    /\ pc = "env"
    /\ LET r == read_env(env)
       IN  /\ pc' = IF r.ok THEN "key" ELSE "exited"
           /\ exit_cause' = IF r.ok THEN exit_cause ELSE Exit("env", r.missing, "err")
    /\ UNCHANGED <<k_pc, p_pc, cfg_vars, last_kalshi_market, last_polymarket_market,
                   kalshi_result, polymarket_result, ws_stream, kalshi_elapsed,
                   display_due, read_wait, iter_count, since_attempt, since_success>>
    /\ UNCHANGED <<tick_vars, latest_vars, conn_vars, h_vars>>

\* kalshi::auth::load_private_key(&kalshi_key_path)? (main.rs:157).
LoadKey ==
    /\ pc = "key"
    /\ LET r == load_private_key(key_file)
       IN  /\ pc' = IF r.ok THEN "resolve_polymarket" ELSE "exited"
           /\ exit_cause' = IF r.ok THEN exit_cause ELSE Exit("key", r.error, "err")
    /\ UNCHANGED <<k_pc, p_pc, cfg_vars, last_kalshi_market, last_polymarket_market,
                   kalshi_result, polymarket_result, ws_stream, kalshi_elapsed,
                   display_due, read_wait, iter_count, since_attempt, since_success>>
    /\ UNCHANGED <<tick_vars, latest_vars, conn_vars, h_vars>>

\* get_asset_id_and_anchor returns (main.rs:170-183).
ResolvePolymarket ==
    /\ pc = "resolve_polymarket"
    /\ \E outcome \in PolymarketResolutions :
         /\ pc' = StartupArm(outcome, "resolve_kalshi")
         /\ exit_cause' = IF pc' = "exited" THEN Exit("resolve_polymarket", outcome, "ok")
                                            ELSE exit_cause
         /\ IF outcome = "ok" THEN asset_id' \in AssetIds
                               ELSE asset_id' = asset_id
    /\ UNCHANGED <<k_pc, p_pc, cfg_vars, last_kalshi_market, last_polymarket_market,
                   kalshi_result, polymarket_result, ws_stream, kalshi_elapsed,
                   display_due, read_wait, iter_count, since_attempt, since_success>>
    /\ UNCHANGED <<tick_vars, latest_vars, sent, h_vars>>

\* resolve_market_ticker returns (main.rs:188-200).
ResolveKalshi ==
    /\ pc = "resolve_kalshi"
    /\ \E outcome \in KalshiResolutions :
         /\ pc' = StartupArm(outcome, "connect")
         /\ exit_cause' = IF pc' = "exited" THEN Exit("resolve_kalshi", outcome, "ok")
                                            ELSE exit_cause
    /\ UNCHANGED <<k_pc, p_pc, cfg_vars, last_kalshi_market, last_polymarket_market,
                   kalshi_result, polymarket_result, ws_stream, kalshi_elapsed,
                   display_due, read_wait, iter_count, since_attempt, since_success>>
    /\ UNCHANGED <<tick_vars, latest_vars, conn_vars, h_vars>>

\* polymarket_client.connect() before the loop (main.rs:229-240), then the
\* loop's timers (main.rs:246-253).
InitialConnect ==
    /\ pc = "connect"
    /\ \E outcome \in ConnectOutcomes :
         LET r == connect([ws_stream |-> ws_stream, asset_id |-> asset_id, sent |-> sent],
                          outcome)
         IN
         /\ ws_stream' = r.ws_stream
         /\ sent' = r.sent
         /\ pc' = StartupArm(IF r.ok THEN "ok" ELSE outcome, "loop")
         /\ exit_cause' = IF pc' = "exited" THEN Exit("connect", outcome, "ok")
                                            ELSE exit_cause
    /\ kalshi_elapsed' = 0
    /\ since_attempt' = 0
    /\ since_success' = 0
    /\ display_due' = FALSE
    /\ iter_count' = 0
    /\ UNCHANGED <<k_pc, p_pc, cfg_vars, last_kalshi_market, last_polymarket_market,
                   kalshi_result, polymarket_result, read_wait>>
    /\ UNCHANGED <<tick_vars, latest_vars, asset_id, h_vars>>

\* Top of the loop: both futures are created and joined (main.rs:255-295).
LoopTop ==
    /\ pc = "loop"
    /\ pc' = "join"
    /\ k_pc' = "gate"
    /\ p_pc' = "read"
    /\ read_wait' = 0
    /\ kalshi_result' = None
    /\ polymarket_result' = None
    /\ prev_kalshi' = last_kalshi_market
    /\ prev_polymarket' = last_polymarket_market
    /\ prev_ws_stream' = ws_stream
    /\ pull_outcome' = "none"
    /\ push_outcome' = "none"
    /\ connect_calls' = 0
    /\ connect_outcome' = "none"
    /\ reported' = {}
    /\ push_input' = None
    /\ shown_markets' = 0
    /\ shown_arb' = None
    /\ detect_args' = None
    /\ UNCHANGED <<cfg_vars, exit_cause, last_kalshi_market, last_polymarket_market,
                   ws_stream, kalshi_elapsed, display_due, iter_count,
                   since_attempt, since_success>>
    /\ UNCHANGED <<latest_vars, conn_vars, h_vars>>

\* kalshi_future up to its await (main.rs:258-261, 268-270).
KalshiGate ==
    /\ pc = "join" /\ k_pc = "gate"
    /\ IF kalshi_elapsed >= kalshi_interval
       THEN /\ kalshi_elapsed' = FetchStamp(kalshi_elapsed, since_success)
            /\ since_attempt' = 0
            /\ k_pc' = "fetch"
            /\ UNCHANGED <<kalshi_result, pull_outcome>>
       ELSE /\ kalshi_result' = None
            /\ k_pc' = "done"
            /\ pull_outcome' = "skipped"
            /\ UNCHANGED <<kalshi_elapsed, since_attempt>>
    /\ UNCHANGED <<pc, p_pc, cfg_vars, exit_cause, last_kalshi_market,
                   last_polymarket_market, polymarket_result, ws_stream, display_due,
                   read_wait, iter_count, since_success>>
    /\ UNCHANGED <<prev_kalshi, prev_polymarket, prev_ws_stream, push_outcome,
                   connect_calls, connect_outcome, reported, push_input,
                   shown_markets, shown_arb, detect_args>>
    /\ UNCHANGED <<latest_vars, conn_vars, h_vars>>

\* get_market returns (main.rs:261-267).
KalshiFetch ==
    /\ k_pc = "fetch"
    /\ pc = "join"
    /\ \E resp \in MarketResponses, ob_resp \in OrderbookResponses :
         LET r == get_market(resp, ob_resp)
         IN  /\ kalshi_result' = IF r.ok THEN r.market ELSE None
             /\ pull_outcome' = IF r.ok THEN "ok" ELSE "err"
             /\ reported' = IF r.ok THEN reported ELSE reported \cup {"Kalshi error"}
             /\ since_success' = IF r.ok THEN 0 ELSE since_success
             /\ latest_kalshi' = IF r.ok THEN r.market ELSE latest_kalshi
             /\ pc' = FetchContinuation(r)
             /\ exit_cause' = IF pc' = "exited" THEN Exit("loop", "get_market", "err")
                                                ELSE exit_cause
    /\ k_pc' = "done"
    /\ UNCHANGED <<p_pc, cfg_vars, last_kalshi_market,
                   last_polymarket_market, polymarket_result, ws_stream, kalshi_elapsed,
                   display_due, read_wait, iter_count, since_attempt>>
    /\ UNCHANGED <<prev_kalshi, prev_polymarket, prev_ws_stream, push_outcome,
                   connect_calls, connect_outcome, push_input, shown_markets, shown_arb, detect_args>>
    /\ UNCHANGED <<latest_polymarket, conn_vars, h_vars>>

\* read_next_book returns within the bound (main.rs:275-283).
PolyRead ==
    /\ pc = "join" /\ p_pc = "read"
    /\ \E frames \in PushEvents :
         LET r == read_next_book(ws_stream, frames)
         IN  /\ r.kind # "pending"
             /\ ws_stream' = r.stream
             /\ polymarket_result' = r.market
             /\ push_input' = r.from
             /\ latest_polymarket' = IF r.ok THEN r.market ELSE latest_polymarket
             /\ push_outcome' = IF r.ok THEN "ok" ELSE "err"
             /\ reported' = IF r.ok THEN reported
                                    ELSE reported \cup {"Polymarket error", "Reconnecting"}
             /\ p_pc' = AfterRead(r)
    /\ UNCHANGED <<pc, k_pc, cfg_vars, exit_cause, last_kalshi_market,
                   last_polymarket_market, kalshi_result, kalshi_elapsed, display_due,
                   read_wait, iter_count, since_attempt, since_success>>
    /\ UNCHANGED <<prev_kalshi, prev_polymarket, prev_ws_stream, pull_outcome,
                   connect_calls, connect_outcome, shown_markets, shown_arb, detect_args>>
    /\ UNCHANGED <<latest_kalshi, conn_vars, h_vars>>

\* The bound elapses first (main.rs:290); only a live stream keeps a read
\* waiting, and whatever the read consumed before was no book message.
PolyTimeout ==
    /\ pc = "join" /\ p_pc = "read"
    /\ ws_stream = "open"
    /\ read_wait >= read_timeout
    /\ polymarket_result' = None
    /\ push_outcome' = "timeout"
    /\ p_pc' = AfterTimeout
    /\ UNCHANGED <<pc, k_pc, cfg_vars, exit_cause, last_kalshi_market,
                   last_polymarket_market, kalshi_result, ws_stream, kalshi_elapsed,
                   display_due, read_wait, iter_count, since_attempt, since_success>>
    /\ UNCHANGED <<prev_kalshi, prev_polymarket, prev_ws_stream, pull_outcome,
                   connect_calls, connect_outcome, reported, push_input,
                   shown_markets, shown_arb, detect_args>>
    /\ UNCHANGED <<latest_vars, conn_vars, h_vars>>

\* The inline connect() of the error arm returns (main.rs:285-288).
PolyReconnect ==
    /\ pc = "join" /\ p_pc = "reconnect"
    /\ \E outcome \in ConnectOutcomes :
         LET r == connect([ws_stream |-> ws_stream, asset_id |-> asset_id, sent |-> sent],
                          outcome)
             ok == r.ok
         IN  /\ ws_stream' = r.ws_stream
             /\ sent' = r.sent
             /\ connect_outcome' = IF ok THEN "ok" ELSE "err"
             /\ reported' = IF ok THEN reported ELSE reported \cup {"Reconnect failed"}
             /\ p_pc' = AfterReconnect(ok)
             /\ pc' = ReconnectContinuation(ok)
             /\ exit_cause' = IF pc' = "exited" THEN Exit("loop", "connect", "err")
                                                ELSE exit_cause
    /\ connect_calls' = connect_calls + 1
    /\ polymarket_result' = None
    /\ UNCHANGED <<k_pc, cfg_vars, last_kalshi_market,
                   last_polymarket_market, kalshi_result, kalshi_elapsed, display_due,
                   read_wait, iter_count, since_attempt, since_success>>
    /\ UNCHANGED <<prev_kalshi, prev_polymarket, prev_ws_stream, pull_outcome,
                   push_outcome, push_input, shown_markets, shown_arb, detect_args>>
    /\ UNCHANGED <<latest_vars, asset_id, h_vars>>

\* Faulty variant: the pair is taken from the entries as they were before the
\* tick's results were applied.
CachedQuotes_stale(updated, before) == before

\* The pair `(&last_kalshi_market, &last_polymarket_market)` matched after the
\* update step (main.rs:306): both references are taken in one expression, from
\* the entries as the update step left them.
CachedQuotes(updated, before) == updated

\* Faulty variant: the first branch to complete ends the wait.
JoinDone_select(k, p) == k = "done" \/ p = "done"

\* tokio::join!(kalshi_future, polymarket_future) returns when both futures
\* have completed (main.rs:295).
JoinDone(k, p) == k = "done" /\ p = "done"

\* After the join: process updates, display and detect (main.rs:295-328).
Process ==
    /\ pc = "join" /\ JoinDone(k_pc, p_pc)
    /\ LET updated == ProcessUpdates(last_kalshi_market, last_polymarket_market,
                                     kalshi_result, polymarket_result)
           k_opt == updated.kalshi
           p_opt == updated.polymarket
           quotes == CachedQuotes(updated, [kalshi |-> last_kalshi_market,
                                            polymarket |-> last_polymarket_market])
           should_display == ShouldDisplay(verbose, iter_count, display_due)
           out == DisplayAndDetect(quotes.kalshi, quotes.polymarket, should_display)
       IN  /\ last_kalshi_market' = k_opt
           /\ last_polymarket_market' = p_opt
           /\ shown_markets' = out.markets
           /\ shown_arb' = out.arb
           /\ detect_args' = out.detect
           /\ IF IsSome(k_opt) /\ IsSome(p_opt)
              THEN IF should_display
                   THEN iter_count' = 0 /\ display_due' = FALSE
                   ELSE iter_count' = iter_count + 1 /\ UNCHANGED display_due
              ELSE UNCHANGED <<iter_count, display_due>>
    /\ pc' = "sleep"
    /\ k_pc' = "idle"
    /\ p_pc' = "idle"
    /\ UNCHANGED <<cfg_vars, exit_cause, kalshi_result, polymarket_result, ws_stream,
                   kalshi_elapsed, read_wait, since_attempt, since_success>>
    /\ UNCHANGED <<prev_kalshi, prev_polymarket, prev_ws_stream, pull_outcome,
                   push_outcome, connect_calls, connect_outcome, reported, push_input>>
    /\ UNCHANGED <<latest_vars, conn_vars, h_vars>>

\* sleep(Duration::from_millis(10)) returns (main.rs:331).
SleepDone ==
    /\ pc = "sleep"
    /\ pc' = "loop"
    /\ UNCHANGED <<k_pc, p_pc, cfg_vars, exit_cause, last_kalshi_market,
                   last_polymarket_market, kalshi_result, polymarket_result, ws_stream,
                   kalshi_elapsed, display_due, read_wait, iter_count,
                   since_attempt, since_success>>
    /\ UNCHANGED <<tick_vars, latest_vars, conn_vars, h_vars>>

\* One unit of time passes while main is suspended at an await.  The display
\* timer is kept as the truth value of its only test: display_interval is a
\* whole number of units, reached on one of the units after the last reset.
Tock ==
    /\ pc \in {"join", "sleep"}
    /\ kalshi_elapsed' = Min(kalshi_elapsed + 1, kalshi_interval)
    /\ since_attempt' = Min(since_attempt + 1, kalshi_interval)
    /\ since_success' = Min(since_success + 1, kalshi_interval)
    /\ display_due' \in {display_due, TRUE}
    /\ read_wait' = IF p_pc = "read" THEN Min(read_wait + 1, read_timeout) ELSE read_wait
    /\ UNCHANGED <<pc, k_pc, p_pc, cfg_vars, exit_cause, last_kalshi_market,
                   last_polymarket_market, kalshi_result, polymarket_result, ws_stream,
                   iter_count>>
    /\ UNCHANGED <<tick_vars, latest_vars, conn_vars, h_vars>>

\* The harnesses are idle while main runs.
HarnessOff ==
    /\ d_pc = "off"
    /\ d_kalshi = KalshiMarket(0, 0)
    /\ d_poly = parse_orderbook(EmptyBook)
    /\ d_result = None
    /\ d_swapped = None
    /\ c_pc = "off"
    /\ c_input = <<>>
    /\ c_result = None

Init ==
    /\ pc = "env"
    /\ k_pc = "idle"
    /\ p_pc = "idle"
    /\ env \in SUBSET RequiredSet
    /\ key_file \in KeyFiles
    /\ exit_cause = NoExit
    /\ verbose \in BOOLEAN
    /\ kalshi_interval \in 0..MaxPollInterval
    /\ last_kalshi_market = None
    /\ last_polymarket_market = None
    /\ kalshi_result = None
    /\ polymarket_result = None
    /\ ws_stream = "none"
    /\ kalshi_elapsed = 0
    /\ since_attempt = 0
    /\ since_success = 0
    /\ asset_id = ""
    /\ sent = <<>>
    /\ latest_kalshi = None
    /\ latest_polymarket = None
    /\ display_due = FALSE
    /\ read_wait = 0
    /\ iter_count = 0
    /\ prev_kalshi = None
    /\ prev_polymarket = None
    /\ prev_ws_stream = "none"
    /\ pull_outcome = "none"
    /\ push_outcome = "none"
    /\ connect_calls = 0
    /\ connect_outcome = "none"
    /\ reported = {}
    /\ push_input = None
    /\ shown_markets = 0
    /\ shown_arb = None
    /\ detect_args = None
    /\ HarnessOff

Next ==
    \/ ReadEnv
    \/ LoadKey
    \/ ResolvePolymarket
    \/ ResolveKalshi
    \/ InitialConnect
    \/ LoopTop
    \/ KalshiGate
    \/ KalshiFetch
    \/ PolyRead
    \/ PolyTimeout
    \/ PolyReconnect
    \/ Process
    \/ SleepDone
    \/ Tock

Spec == Init /\ [][Next]_vars

\* ---------------------------------------------------------------------------
\* detect_arbitrage on its own: every pair of quotes over the values below.

\* yes_bid / yes_ask values, in cents.
CentValues == {0, 48, 50, 52, 55, 60, 62, 63, 65}

\* Polymarket prices (x Scale); 625 is no whole number of cents.
ProbValues == {0, 480, 500, 520, 550, 600, 620, 625, 630, 650}

\* The book whose best bid and ask are b and a (0: that side is empty).
BookOf(b, a) ==
    Msg(Some("book"), None, IF b = 0 THEN Arr(<<>>) ELSE Arr(<<Level(Str(b), 1)>>),
        IF a = 0 THEN Arr(<<>>) ELSE Arr(<<Level(Str(a), 1)>>))

KalshiInputs == { KalshiMarket(b, a) : b \in CentValues, a \in CentValues }
PolyInputs == { parse_orderbook(BookOf(b, a)) : b \in ProbValues, a \in ProbValues }

\* The two quotes exchanged: each venue is given the other's bid and ask.
WholeCents(x) == x % (Scale \div 100) = 0
ToCents(x) == (x * 100) \div Scale
QuoteAsKalshi(polymarket) ==
    KalshiMarket(ToCents(polymarket.best_bid), ToCents(polymarket.best_ask))
QuoteAsPoly(kalshi) ==
    parse_orderbook(BookOf(Div100(AsF64(kalshi.yes_bid)), Div100(AsF64(kalshi.yes_ask))))

\* main is not running in this specification.
LoopOff ==
    /\ pc = "exited"
    /\ k_pc = "idle"
    /\ p_pc = "idle"
    /\ env = RequiredSet
    /\ key_file = "pkcs1"
    /\ exit_cause = NoExit
    /\ verbose = FALSE
    /\ kalshi_interval = 0
    /\ last_kalshi_market = None
    /\ last_polymarket_market = None
    /\ kalshi_result = None
    /\ polymarket_result = None
    /\ ws_stream = "none"
    /\ kalshi_elapsed = 0
    /\ since_attempt = 0
    /\ since_success = 0
    /\ asset_id = ""
    /\ sent = <<>>
    /\ latest_kalshi = None
    /\ latest_polymarket = None
    /\ display_due = FALSE
    /\ read_wait = 0
    /\ iter_count = 0
    /\ prev_kalshi = None
    /\ prev_polymarket = None
    /\ prev_ws_stream = "none"
    /\ pull_outcome = "none"
    /\ push_outcome = "none"
    /\ connect_calls = 0
    /\ connect_outcome = "none"
    /\ reported = {}
    /\ push_input = None
    /\ shown_markets = 0
    /\ shown_arb = None
    /\ detect_args = None

InitDetect ==
    /\ LoopOff
    /\ d_pc = "input"
    /\ d_kalshi \in KalshiInputs
    /\ d_poly \in PolyInputs
    /\ d_result = None
    /\ d_swapped = None
    /\ c_pc = "off"
    /\ c_input = <<>>
    /\ c_result = None

\* detect_arbitrage(kalshi, polymarket) is called.
Detect ==
    /\ d_pc = "input"
    /\ d_result' = detect_arbitrage(d_kalshi, d_poly)
    /\ d_pc' = "detected"
    /\ UNCHANGED <<d_kalshi, d_poly, d_swapped>>
    /\ UNCHANGED <<loop_vars, tick_vars, c_vars>>

\* detect_arbitrage is called on the same two quotes with the venues exchanged.
DetectSwapped ==
    /\ d_pc = "detected"
    /\ WholeCents(d_poly.best_bid) /\ WholeCents(d_poly.best_ask)
    /\ d_swapped' = detect_arbitrage(QuoteAsKalshi(d_poly), QuoteAsPoly(d_kalshi))
    /\ d_pc' = "swapped"
    /\ UNCHANGED <<d_kalshi, d_poly, d_result>>
    /\ UNCHANGED <<loop_vars, tick_vars, c_vars>>

NextDetect == Detect \/ DetectSwapped

SpecDetect == InitDetect /\ [][NextDetect]_vars

\* ---------------------------------------------------------------------------
\* read_next_book on its own: every stream of at most MaxFrames frames.

\* Longest run of frames a read is given.
MaxFrames == 3

\* A book message tagged by "type" alone, one whose two tag fields disagree,
\* and one tagged by neither field.
TypedBook == Msg(None, Some("book"), Arr(<<Level(Str(500), 1)>>), Arr(<<Level(Str(550), 1)>>))
MixedTags == Msg(Some("price_change"), Some("book"), Arr(<<Level(Str(600), 1)>>),
                 Arr(<<Level(Str(620), 1)>>))
Untagged == Msg(None, None, Arr(<<Level(Str(480), 1)>>), Arr(<<Level(Str(650), 1)>>))
BookA == Msg(Some("book"), None, Arr(<<Level(Str(480), 1)>>), Arr(<<Level(Str(520), 1)>>))
BookB == Msg(Some("book"), Some("MARKET"), Arr(<<Level(Str(620), 1), Level(Str(630), 1)>>),
             Missing)

ReadFrames ==
    { Frame("other"), Frame("close"), Frame("error"), Frame("end"), TextNoJson,
      TextOne(PriceChange), TextOne(BookA), TextOne(TypedBook), TextOne(MixedTags),
      TextArray(<<>>), TextArray(<<Untagged, BookB, BookA>>),
      TextArray(<<PriceChange, MixedTags>>) }

RECURSIVE SeqsUpTo(_, _)
SeqsUpTo(S, n) ==
    IF n = 0 THEN {<<>>}
    ELSE LET shorter == SeqsUpTo(S, n - 1)
         IN  shorter \cup { Append(s, x) : s \in shorter, x \in S }

ReadInputs ==
    { [stream |-> s, frames |-> fs] : s \in {"open"}, fs \in SeqsUpTo(ReadFrames, MaxFrames) }
    \cup { [stream |-> s, frames |-> <<>>] : s \in {"none", "dead"} }

InitRead ==
    /\ LoopOff
    /\ d_pc = "off"
    /\ d_kalshi = KalshiMarket(0, 0)
    /\ d_poly = parse_orderbook(EmptyBook)
    /\ d_result = None
    /\ d_swapped = None
    /\ c_pc = "input"
    /\ c_input \in ReadInputs
    /\ c_result = None

\* read_next_book() is awaited on the stream c_input.
ReadNextBook ==
    /\ c_pc = "input"
    /\ c_result' = Some(read_next_book(c_input.stream, c_input.frames))
    /\ c_pc' = "returned"
    /\ UNCHANGED c_input
    /\ UNCHANGED <<loop_vars, tick_vars, d_vars>>

NextRead == ReadNextBook

SpecRead == InitRead /\ [][NextRead]_vars

\* ---------------------------------------------------------------------------
\* get_market on its own: every pair of responses to its two requests.

\* Responses to the market request: the three failures, or a market.
FetchMarketResponses ==
    { [kind |-> k, market |-> None] : k \in {"send_err", "status_err", "decode_err"} }
    \cup { [kind |-> "ok", market |-> Some(m)] : m \in KalshiInputs }

\* Responses to the orderbook request: the three failures, or a depth.
FetchOrderbookResponses ==
    { [kind |-> k, orderbook |-> None] : k \in {"send_err", "status_err", "decode_err"} }
    \cup { [kind |-> "ok", orderbook |-> Some(FeedOrderbook)],
           [kind |-> "ok", orderbook |-> Some([yes |-> <<>>, no |-> <<>>])] }

InitFetch ==
    /\ LoopOff
    /\ d_pc = "off"
    /\ d_kalshi = KalshiMarket(0, 0)
    /\ d_poly = parse_orderbook(EmptyBook)
    /\ d_result = None
    /\ d_swapped = None
    /\ c_pc = "input"
    /\ c_input \in { [resp |-> r, ob_resp |-> o] :
                       r \in FetchMarketResponses, o \in FetchOrderbookResponses }
    /\ c_result = None

\* get_market(ticker) is awaited.
GetMarket ==
    /\ c_pc = "input"
    /\ c_result' = Some(get_market(c_input.resp, c_input.ob_resp))
    /\ c_pc' = "returned"
    /\ UNCHANGED c_input
    /\ UNCHANGED <<loop_vars, tick_vars, d_vars>>

NextFetch == GetMarket

SpecFetch == InitFetch /\ [][NextFetch]_vars

\* ---------------------------------------------------------------------------
\* display_markets (main.rs:15-99): the table it prints, without the header.

\* for i in 0..5 / for i in (0..5).rev()  (main.rs:50, 68)
DisplayDepth == 5

\* format!("${:.2}", x) and format!("${:.4}", x): x rounded to hundredths and
\* to ten-thousandths, as the number of those units.
Fmt2(x) == (x + Scale \div 200) \div (Scale \div 100)
Fmt4(x) == (x * 10 * 10 * 100) \div Scale

\* Vec::get(i) with i counted from 1.
Get(levels, i) == IF i \in DOMAIN levels THEN Some(levels[i]) ELSE None

\* sort_by(|a, b| b.0.cmp(&a.0)) (main.rs:42, 45): the stable sort of
\* (price, size) pairs by descending price.
RECURSIVE InsertPair(_, _)
InsertPair(sorted, x) ==
    IF sorted = <<>> THEN <<x>>
    ELSE IF x[1] > Head(sorted)[1]
         THEN <<x>> \o sorted
         ELSE <<Head(sorted)>> \o InsertPair(Tail(sorted), x)

RECURSIVE SortPairsDescending(_)
SortPairsDescending(pairs) ==
    IF pairs = <<>> THEN <<>>
    ELSE InsertPair(SortPairsDescending(SubSeq(pairs, 1, Len(pairs) - 1)), pairs[Len(pairs)])

\* Faulty variant: the no price is shown as it is.
kalshi_ask_price_raw(no_price) == Div100(AsF64(no_price))

\* (100 - a.0) as f64 / 100.0  (main.rs:57)
kalshi_ask_price(no_price) == Div100(AsF64(100 - no_price))

\* b.0 as f64 / 100.0  (main.rs:75)
kalshi_bid_price(yes_price) == Div100(AsF64(yes_price))

\* One line of the table (main.rs:52-61, 70-79): [label, number] and the four
\* cells, each None when the side has no level at that depth (the cell is
\* printed empty).  p_level is a Polymarket level, k_level a Kalshi pair and
\* k_price the price shown for it.
Row(label, number, p_level, k_level, k_price) ==
    [label |-> label, number |-> number,
     p_price |-> IF IsSome(p_level)
                 THEN Some(Fmt4(unwrap_or(parse_f64(Unwrap(p_level).price), 0)))
                 ELSE None,
     p_vol |-> IF IsSome(p_level) THEN Some(Unwrap(p_level).size) ELSE None,
     k_price |-> IF IsSome(k_level) THEN Some(Fmt2(Unwrap(k_price))) ELSE None,
     k_vol |-> IF IsSome(k_level) THEN Some(Unwrap(k_level)[2]) ELSE None]

\* display_markets (main.rs:15-99): the lines of the table from top to
\* bottom, Ask #5 down to Ask #1 and Bid #1 down to Bid #5, and the two
\* spreads of the summary line.
display_markets(kalshi, polymarket) ==
    LET has_book == IsSome(kalshi.orderbook)
        k_bids == IF has_book THEN SortPairsDescending(Unwrap(kalshi.orderbook).yes) ELSE <<>>
        k_asks == IF has_book THEN SortPairsDescending(Unwrap(kalshi.orderbook).no) ELSE <<>>
        best_k_bid == Div100(AsF64(kalshi.yes_bid))
        best_k_ask == Div100(AsF64(kalshi.yes_ask))
    IN  [asks |-> [n \in 1..DisplayDepth |->
                      LET i == DisplayDepth + 1 - n
                          k_ask == Get(k_asks, i)
                      IN  Row("Ask", i, Get(polymarket.asks, i), k_ask,
                              IF IsSome(k_ask) THEN Some(kalshi_ask_price(Unwrap(k_ask)[1]))
                                               ELSE None)],
         bids |-> [i \in 1..DisplayDepth |->
                      LET k_bid == Get(k_bids, i)
                      IN  Row("Bid", i, Get(polymarket.bids, i), k_bid,
                              IF IsSome(k_bid) THEN Some(kalshi_bid_price(Unwrap(k_bid)[1]))
                                               ELSE None)],
         p_to_k |-> best_k_bid - polymarket.best_ask,
         k_to_p |-> polymarket.best_bid - best_k_ask]

\* display_markets on its own: Kalshi markets with no depth or with a depth of
\* up to MaxDepth levels a side.  A level's size is its place in the arrival
\* order of its side.
MaxDepth == 6

DepthPrices == {38, 45}

DepthSides ==
    { [i \in DOMAIN prices |-> <<prices[i], i>>] : prices \in SeqsUpTo(DepthPrices, MaxDepth) }

DisplayKalshi ==
    { [KalshiMarket(b, 100 - nb) EXCEPT !.orderbook = ob] :
          b \in {45}, nb \in DepthPrices,
          ob \in {None} \cup { Some([yes |-> y, no |-> n]) : y \in DepthSides, n \in DepthSides } }

DisplayPoly ==
    { parse_orderbook(EmptyBook),
      parse_orderbook(Msg(Some("book"), None, Arr(<<Level(Str(640), 1), Level(Str(650), 2)>>),
                          Arr(<<Level(Str(630), 1)>>))) }

InitDisplay ==
    /\ LoopOff
    /\ d_pc = "off"
    /\ d_kalshi = KalshiMarket(0, 0)
    /\ d_poly = parse_orderbook(EmptyBook)
    /\ d_result = None
    /\ d_swapped = None
    /\ c_pc = "quotes"
    /\ c_input \in { [kalshi |-> k, polymarket |-> q] : k \in DisplayKalshi, q \in DisplayPoly }
    /\ c_result = None

\* display_markets(&target_team, k_market, p_market) returns (main.rs:314, 324).
DisplayMarkets ==
    /\ c_pc = "quotes"
    /\ c_result' = Some(display_markets(c_input.kalshi, c_input.polymarket))
    /\ c_pc' = "displayed"
    /\ UNCHANGED c_input
    /\ UNCHANGED <<loop_vars, tick_vars, d_vars>>

NextDisplay == DisplayMarkets

SpecDisplay == InitDisplay /\ [][NextDisplay]_vars

\* ---------------------------------------------------------------------------
\* parse_orderbook on its own: every book message with up to MaxLevels levels
\* a side.  A level's size is its place in the arrival order of its side.

MaxLevels == 3

StrNaN == [ok |-> TRUE, val |-> NaN]
ParsePrices == {BadStr, StrNaN, Str(300), Str(700)}

ParseSides ==
    { [i \in DOMAIN prices |-> Level(prices[i], i)] :
          prices \in SeqsUpTo(ParsePrices, MaxLevels) }

ParseInputs ==
    { Msg(Some("book"), None, Arr(bids), Arr(asks)) : bids \in ParseSides, asks \in ParseSides }

InitParse ==
    /\ LoopOff
    /\ d_pc = "off"
    /\ d_kalshi = KalshiMarket(0, 0)
    /\ d_poly = parse_orderbook(EmptyBook)
    /\ d_result = None
    /\ d_swapped = None
    /\ c_pc = "message"
    /\ c_input \in ParseInputs
    /\ c_result = None

\* parse_orderbook(&msg_data) returns (client.rs:103, 121-160).
ParseOrderbook ==
    /\ c_pc = "message"
    /\ \E quote \in parse_orderbook_results(c_input) : c_result' = Some(quote)
    /\ c_pc' = "parsed"
    /\ UNCHANGED c_input
    /\ UNCHANGED <<loop_vars, tick_vars, d_vars>>

NextParse == ParseOrderbook

SpecParse == InitParse /\ [][NextParse]_vars

\* ---------------------------------------------------------------------------
\* Properties of detect_arbitrage (checked under SpecDetect)

Detected == d_pc \in {"detected", "swapped"}
KBid == Div100(AsF64(d_kalshi.yes_bid))
KAsk == Div100(AsF64(d_kalshi.yes_ask))
PBid == d_poly.best_bid
PAsk == d_poly.best_ask
\* The two guarded crossings of the detector's policy.
Cross1 == KBid > PAsk /\ PAsk > 0
Cross2 == PBid > KAsk /\ KAsk > 0
PctEq(x, y) == x.num * y.den = y.num * x.den

\* C1 as stated: if either venue's best ask is 0, detect_arbitrage returns None,
\* whatever the bids are.
C1_ZeroAskAlwaysNone ==
    (Detected /\ (d_kalshi.yes_ask = 0 \/ d_poly.best_ask = 0)) => d_result = None

\* C1 amended: a venue whose best ask is 0 is never the venue bought on, whatever
\* the bids are; when both asks are 0 the result is None.
C1_ZeroAskNeverBought ==
    Detected =>
        /\ (d_kalshi.yes_ask = 0 /\ d_poly.best_ask = 0) => d_result = None
        /\ (d_kalshi.yes_ask = 0 /\ IsSome(d_result)) => Unwrap(d_result).buy_platform # "Kalshi"
        /\ (d_poly.best_ask = 0 /\ IsSome(d_result)) => Unwrap(d_result).buy_platform # "Polymarket"

\* C1 witness: Polymarket has no ask, Kalshi bids above it, and the detector has
\* reported the other direction (buy on Kalshi, sell at the Polymarket bid).
C1_Witness ==
    /\ Detected
    /\ d_poly.best_ask = 0
    /\ d_kalshi.yes_bid > 0
    /\ IsSome(d_result)
    /\ Unwrap(d_result).buy_platform = "Kalshi"

\* C3: whenever Kalshi's bid exceeds a nonzero Polymarket ask, the result buys on
\* Polymarket at its ask and sells on Kalshi at its bid, also when the opposite
\* crossing holds at the same time.
C3_FirstBranchWins ==
    (Detected /\ Cross1) =>
        /\ IsSome(d_result)
        /\ Unwrap(d_result).buy_platform = "Polymarket"
        /\ Unwrap(d_result).sell_platform = "Kalshi"
        /\ Unwrap(d_result).buy_price = PAsk
        /\ Unwrap(d_result).sell_price = KBid

\* C3 witness: both crossings hold and the detector has answered.
C3_Witness == Detected /\ Cross1 /\ Cross2 /\ IsSome(d_result)

\* C4: when the first crossing is false and Polymarket's bid exceeds a nonzero
\* Kalshi ask, the result buys on Kalshi at its ask and sells on Polymarket at its bid.
C4_SecondBranch ==
    (Detected /\ ~Cross1 /\ Cross2) =>
        /\ IsSome(d_result)
        /\ Unwrap(d_result).buy_platform = "Kalshi"
        /\ Unwrap(d_result).sell_platform = "Polymarket"
        /\ Unwrap(d_result).buy_price = KAsk
        /\ Unwrap(d_result).sell_price = PBid

\* C4 witness: Kalshi 0.60/0.62, Polymarket 0.65/0.63 gives buy Kalshi@0.62, sell
\* Polymarket@0.65.
C4_Witness ==
    /\ Detected
    /\ d_kalshi.yes_bid = 60 /\ d_kalshi.yes_ask = 62
    /\ d_poly.best_bid = 650 /\ d_poly.best_ask = 630
    /\ IsSome(d_result)
    /\ Unwrap(d_result).buy_price = 620
    /\ Unwrap(d_result).sell_price = 650

\* C5: an opportunity is returned if and only if one of the two guarded crossings
\* holds; every other input, equal bid and ask across venues included, gives None.
C5_SomeIffCrossing == Detected => (IsSome(d_result) <=> (Cross1 \/ Cross2))

\* C5 witness: Kalshi's bid equals Polymarket's ask (no strict crossing) and the
\* detector has answered None.
C5_Witness ==
    /\ Detected
    /\ KBid = PAsk /\ PAsk > 0
    /\ ~Cross2
    /\ d_result = None

\* C6 as stated: on the two quotes exchanged the detector reports nothing in both
\* orders, or an opportunity in both with opposite role labels and identical
\* absolute and percentage profit.
C6_SymmetricAlways ==
    (d_pc = "swapped") =>
        \/ d_result = None /\ d_swapped = None
        \/ /\ IsSome(d_result) /\ IsSome(d_swapped)
           /\ Unwrap(d_result).buy_platform = Unwrap(d_swapped).sell_platform
           /\ Unwrap(d_result).sell_platform = Unwrap(d_swapped).buy_platform
           /\ Unwrap(d_result).profit_cents = Unwrap(d_swapped).profit_cents
           /\ PctEq(Unwrap(d_result).profit_pct, Unwrap(d_swapped).profit_pct)

\* C6 amended: both orders report nothing or both report an opportunity; unless
\* both crossings hold at once, the two opportunities have opposite role labels,
\* the same prices and identical absolute and percentage profit; when both
\* crossings hold each order reports its own first branch (buy on the second
\* argument at its ask, sell on the first at its bid).
C6_SymmetricUnlessBothCross ==
    (d_pc = "swapped") =>
        /\ IsSome(d_result) <=> IsSome(d_swapped)
        /\ (IsSome(d_result) /\ ~(Cross1 /\ Cross2)) =>
              /\ Unwrap(d_result).buy_platform = Unwrap(d_swapped).sell_platform
              /\ Unwrap(d_result).sell_platform = Unwrap(d_swapped).buy_platform
              /\ Unwrap(d_result).buy_price = Unwrap(d_swapped).buy_price
              /\ Unwrap(d_result).sell_price = Unwrap(d_swapped).sell_price
              /\ Unwrap(d_result).profit_cents = Unwrap(d_swapped).profit_cents
              /\ PctEq(Unwrap(d_result).profit_pct, Unwrap(d_swapped).profit_pct)
        /\ (Cross1 /\ Cross2) =>
              /\ Unwrap(d_result).buy_platform = "Polymarket"
              /\ Unwrap(d_swapped).buy_platform = "Polymarket"
              /\ Unwrap(d_result).buy_price = PAsk /\ Unwrap(d_result).sell_price = KBid
              /\ Unwrap(d_swapped).buy_price = KAsk /\ Unwrap(d_swapped).sell_price = PBid

\* C6 witness: exactly one crossing holds and both orders have reported it.
C6_Witness ==
    /\ d_pc = "swapped"
    /\ ~Cross1 /\ Cross2
    /\ IsSome(d_result) /\ IsSome(d_swapped)
    /\ Unwrap(d_swapped).buy_platform = "Polymarket"

\* C7: every returned opportunity has different buy and sell platforms, a sell
\* price above its buy price, and a buy price above 0, which is also the divisor
\* of its percentage.
C7_OpportunityWellFormed ==
    (Detected /\ IsSome(d_result)) =>
        /\ Unwrap(d_result).buy_platform # Unwrap(d_result).sell_platform
        /\ Unwrap(d_result).sell_price > Unwrap(d_result).buy_price
        /\ Unwrap(d_result).buy_price > 0
        /\ Unwrap(d_result).profit_pct.den = Unwrap(d_result).buy_price

\* C7 witness: an opportunity returned on a market with a zero ask on one venue
\* and a bid above the ask within the other.
C7_Witness ==
    /\ Detected
    /\ IsSome(d_result)
    /\ d_poly.best_ask = 0
    /\ d_kalshi.yes_bid > d_kalshi.yes_ask

\* C8 as stated: the absolute-profit field equals sell_price - buy_price on the
\* scale of the prices, and the percentage equals (sell - buy) / buy * 100.
C8_ProfitOnPriceScale ==
    (Detected /\ IsSome(d_result)) =>
        LET o == Unwrap(d_result)
        IN  /\ o.profit_cents = o.sell_price - o.buy_price
            /\ PctEq(o.profit_pct, PctOf(o.sell_price - o.buy_price, o.buy_price))

\* C8 amended: the absolute-profit field (profit_cents) equals
\* (sell_price - buy_price) * 100, the profit in cents, and the percentage
\* equals (sell_price - buy_price) / buy_price * 100.
C8_ProfitInCents ==
    (Detected /\ IsSome(d_result)) =>
        LET o == Unwrap(d_result)
        IN  /\ o.profit_cents = Mul100(o.sell_price - o.buy_price)
            /\ o.profit_pct.den # 0
            /\ PctEq(o.profit_pct, PctOf(o.sell_price - o.buy_price, o.buy_price))

\* C8 witness: buy 0.62, sell 0.65: profit_cents is 3.0 and the percentage 300/62.
C8_Witness ==
    /\ Detected
    /\ IsSome(d_result)
    /\ Unwrap(d_result).buy_price = 620
    /\ Unwrap(d_result).sell_price = 650
    /\ Unwrap(d_result).profit_cents = 3 * Scale
    /\ PctEq(Unwrap(d_result).profit_pct, [num |-> 300, den |-> 62])

\* ---------------------------------------------------------------------------
\* Properties of the loop (checked under Spec)

\* The tick has run its update and detection step.
TickEnded == pc = "sleep"
BothCached == IsSome(last_kalshi_market) /\ IsSome(last_polymarket_market)

\* C2: at the end of a tick whose get_market call failed, the Kalshi cache entry
\* is the one the tick began with (absent or the same market), and the
\* Polymarket entry is what this tick's push branch alone makes it.
C2_StaleRetention ==
    (TickEnded /\ pull_outcome = "err") =>
        /\ last_kalshi_market = prev_kalshi
        /\ last_polymarket_market =
              (IF push_outcome = "ok" THEN polymarket_result ELSE prev_polymarket)

\* C2 witness: a tick with a cached Kalshi market in which get_market failed and
\* the push read delivered a different book has ended.
C2_Witness ==
    /\ TickEnded
    /\ pull_outcome = "err"
    /\ IsSome(prev_kalshi)
    /\ push_outcome = "ok"
    /\ last_polymarket_market # prev_polymarket

\* C9: at the end of every tick with both quotes cached on which detect_arbitrage
\* yields an opportunity, that opportunity is the one handed to display_arbitrage
\* in this tick, whatever verbose, iter_count and the display timer are.
C9_DetectionNeverThrottled ==
    (TickEnded /\ BothCached) =>
        LET opportunity == detect_arbitrage(Unwrap(last_kalshi_market),
                                            Unwrap(last_polymarket_market))
        IN  IsSome(opportunity) => (shown_arb = opportunity /\ shown_markets = 1)

\* C9 witness: a non-verbose tick that did not display on its own schedule
\* (iter_count was incremented) has shown an opportunity.
C9_Witness ==
    /\ TickEnded
    /\ ~verbose
    /\ iter_count > 0
    /\ IsSome(shown_arb)

\* C10 as stated: in a tick where read_next_book returned an error, connect() is
\* called exactly once and both cached quotes are left unchanged.
C10_ErrorLeavesBothCaches ==
    (TickEnded /\ push_outcome = "err") =>
        /\ connect_calls = 1
        /\ last_polymarket_market = prev_polymarket
        /\ last_kalshi_market = prev_kalshi

\* C10 amended: in a tick where read_next_book returned an error, connect() is
\* called exactly once, the Polymarket entry is left unchanged, the Kalshi entry
\* changes only by this tick's own successful get_market, and the push branch
\* completes and the tick ends whether connect() succeeded or failed.
C10_ErrorReconnectsOnce ==
    /\ (push_outcome = "err" /\ p_pc = "reconnect") => connect_calls = 0
    /\ (push_outcome = "err" /\ connect_outcome # "none") =>
          (connect_calls = 1 /\ pc # "exited" /\ p_pc \in {"done", "idle"})
    /\ (TickEnded /\ push_outcome = "err") =>
          /\ connect_calls = 1
          /\ connect_outcome \in {"ok", "err"}
          /\ last_polymarket_market = prev_polymarket
          /\ last_kalshi_market =
                (IF pull_outcome = "ok" THEN kalshi_result ELSE prev_kalshi)

\* C10 witness: a tick whose push read failed and whose reconnect failed too has
\* ended, with a cached Polymarket book kept and a fresh Kalshi market stored.
C10_Witness ==
    /\ TickEnded
    /\ push_outcome = "err"
    /\ connect_outcome = "err"
    /\ IsSome(prev_polymarket)
    /\ pull_outcome = "ok"
    /\ last_kalshi_market # prev_kalshi

\* ---------------------------------------------------------------------------
\* The push branch of a tick (checked under Spec)

\* What the error arm of the push branch prints (main.rs:281-287).
PushReports == {"Polymarket error", "Reconnecting", "Reconnect failed"}

\* C11: in a tick whose bounded push read elapsed without a book update, the
\* push branch has yielded None and is finished, it has printed no error,
\* connect() has not been called, ws_stream is what it was when the tick
\* began, and after the process-updates step the Polymarket cache entry is the
\* one the tick began with.
C11_TimeoutIsNoOp ==
    push_outcome = "timeout" =>
        /\ p_pc \in {"done", "idle"}
        /\ polymarket_result = None
        /\ reported \cap PushReports = {}
        /\ connect_calls = 0 /\ connect_outcome = "none"
        /\ ws_stream = prev_ws_stream
        /\ last_polymarket_market = prev_polymarket

\* A tick has ended after a timeout that found a quote already cached.
C11_Witness ==
    /\ TickEnded
    /\ push_outcome = "timeout"
    /\ IsSome(prev_polymarket)
    /\ last_polymarket_market = prev_polymarket

\* ---------------------------------------------------------------------------
\* What a tick waits for (checked under Spec)

\* read_next_book on a stream that is not open returns at once, with no wait
\* on the network (client.rs:79-80, 116-118).
PolyReadClosed == ws_stream # "open" /\ PolyRead

\* The 500 ms timer of the bounded read is still running (main.rs:275-278).
ReadTimerRuns == Tock /\ read_wait' > read_wait

\* The steps of a tick that need no answer from a venue: the gate, the expiry
\* of the read bound and the timer that leads to it, a read without a live
\* stream, and the code after the join.  KalshiFetch, PolyRead on a live
\* stream and PolyReconnect are answers of the network, which main awaits
\* without a bound of its own (main.rs:261, 279, 285; reqwest::Client::new()
\* at kalshi/client.rs:51 sets no timeout).
TickStep == KalshiGate \/ PolyTimeout \/ PolyReadClosed \/ ReadTimerRuns \/ Process

\* C12 (the claim as stated): once the bounded push read has elapsed without
\* a book update, the tick goes on to its detection step by itself: some step
\* that needs no answer from a venue is enabled until the tick has ended.
C12_TimeoutTickCompletes ==
    (pc = "join" /\ push_outcome = "timeout") => ENABLED TickStep

\* C13 (the claim as stated): a tick never depends on a transport operation
\* returning: in every state of a tick some step that needs no answer from a
\* venue is enabled, so a venue that never answers cannot keep the loop from
\* finishing the tick.
C13_NoWaitOnTransport ==
    pc = "join" => ENABLED TickStep

\* ---------------------------------------------------------------------------
\* The gate of the pull branch (checked under Spec)

\* kalshi_future passes its gate in this step.
GatePassed == pc = "join" /\ k_pc = "gate" /\ k_pc' # "gate"

\* C14 (the claim as stated): the gate lets the fetch run exactly when the time
\* since get_market last returned Ok (since the loop began, before the first
\* success) is at least the poll interval.
C14_GateCountsFromSuccess ==
    [][GatePassed => (k_pc' = "fetch" <=> since_success >= kalshi_interval)]_vars

\* C14 (amended): the gate lets the fetch run exactly when the time since
\* get_market was last called, whatever it returned (since the loop began,
\* before the first call), is at least the poll interval; a gate that does
\* not let it run ends the branch with no fetch.
C14_GateCountsFromAttempt ==
    [][GatePassed =>
          /\ k_pc' = "fetch" <=> since_attempt >= kalshi_interval
          /\ k_pc' # "fetch" => (k_pc' = "done" /\ pull_outcome' = "skipped")]_vars

\* The gate has skipped the fetch although the last success, if any, is a
\* whole poll interval ago: the last call failed less than an interval ago.
C14_Witness ==
    /\ pull_outcome = "skipped"
    /\ kalshi_interval > 0
    /\ since_success >= kalshi_interval
    /\ since_attempt < kalshi_interval

\* ---------------------------------------------------------------------------
\* How main ends (checked under Spec)

\* The first connect() has succeeded, so the loop has been entered: ws_stream
\* is assigned by a successful connect() only (client.rs:72).
LoopEntered == ws_stream # "none"

\* C15: once the loop is entered main never returns, whatever the ticks have
\* met.  A failed fetch and a failed reconnect both end their branch (None is
\* the branch's value), a failed read leads to the one reconnect; with both
\* branches ended the code after the join can run, the sleep that follows it
\* returns, and the next tick can start.
C15_LoopNeverExits ==
    LoopEntered =>
        /\ pc \in {"loop", "join", "sleep"}
        /\ exit_cause = NoExit
        /\ pull_outcome = "err" => (k_pc \in {"done", "idle"} /\ kalshi_result = None)
        /\ push_outcome = "err" => p_pc \in {"reconnect", "done", "idle"}
        /\ push_outcome = "timeout" => p_pc \in {"done", "idle"}
        /\ connect_outcome = "err" => p_pc \in {"done", "idle"}
        /\ (pc = "join" /\ k_pc = "done" /\ p_pc = "done") => ENABLED Process
        /\ pc = "sleep" => ENABLED SleepDone
        /\ pc = "loop" => ENABLED LoopTop

\* A tick has begun on a stream the tick before it found broken and could not
\* reopen, and its own fetch has failed.
C15_Witness ==
    /\ pc = "join"
    /\ prev_ws_stream = "dead"
    /\ pull_outcome = "err"
    /\ k_pc = "done"

\* Failures of the startup steps that main answers with `return Ok(())`.
StartupSteps == {"resolve_polymarket", "resolve_kalshi", "connect"}

ConfigBroken == env # RequiredSet \/ key_file \in {"unreadable", "garbage"}

\* No tick has begun: nothing fetched, read, connected, cached or shown.
NothingDone ==
    /\ k_pc = "idle" /\ p_pc = "idle"
    /\ ws_stream = "none"
    /\ pull_outcome = "none" /\ push_outcome = "none" /\ connect_calls = 0
    /\ last_kalshi_market = None /\ last_polymarket_market = None
    /\ shown_markets = 0 /\ shown_arb = None

\* C17: when one of the four required variables is missing, or the key file
\* cannot be read or is neither a PKCS#1 nor a PKCS#8 key, main gets no
\* further than reading the variables and loading the key and returns an
\* error there: no market is resolved, no connection made, no tick begun.
C17_ConfigFailureIsFatal ==
    ConfigBroken =>
        /\ pc \in {"env", "key", "exited"}
        /\ pc = "key" => env = RequiredSet
        /\ pc = "exited" =>
              /\ exit_cause.result = "err"
              /\ exit_cause.step = IF env # RequiredSet THEN "env" ELSE "key"
              /\ exit_cause.step = "env" => exit_cause.error \in RequiredSet \ env
        /\ NothingDone

\* main has returned because a key file that could be read held no key.
C17_Witness ==
    /\ pc = "exited"
    /\ env = RequiredSet
    /\ key_file = "garbage"
    /\ exit_cause = Exit("key", "parse", "err")

\* ---------------------------------------------------------------------------
\* Messages that do not decode (checked under Spec)

\* This tick's push read returned on a book message one of whose sides is
\* missing or is no array of {price: string, size: string}.
MalformedBookRead ==
    /\ IsSome(push_input)
    /\ \/ Unwrap(push_input).bids.shape # "array"
       \/ Unwrap(push_input).asks.shape # "array"

\* C18 (the claim as stated): a tick that met a pull response it could not
\* use, or a book message with a missing or malformed side, leaves the cached
\* quote of that venue as it was when the tick began.
C18_DecodeErrorRetainsState ==
    TickEnded =>
        /\ pull_outcome = "err" => last_kalshi_market = prev_kalshi
        /\ MalformedBookRead => last_polymarket_market = prev_polymarket

\* ---------------------------------------------------------------------------
\* get_market (checked under SpecFetch)

Fetched == c_pc = "returned"

ReadReturned == c_pc = "returned" /\ c_input.stream = "open"

\* The frame that ends a connection.
IsTerminal(frame) == frame.kind \in {"close", "error", "end"}

\* Index of the first frame of c_input that ends the connection.
FirstTerminal ==
    IF \E i \in 1..Len(c_input.frames) : IsTerminal(c_input.frames[i])
    THEN CHOOSE i \in 1..Len(c_input.frames) :
             /\ IsTerminal(c_input.frames[i])
             /\ \A j \in 1..(i - 1) : ~IsTerminal(c_input.frames[j])
    ELSE Len(c_input.frames) + 1

\* The JSON objects of a frame, in array order; none for any frame that is no
\* text frame and for text that is no JSON.
ObjectsOf(frame) ==
    IF frame.kind = "text" /\ frame.json # None
    THEN IF Unwrap(frame.json).is_array THEN Unwrap(frame.json).value
                                        ELSE <<Unwrap(frame.json).value>>
    ELSE <<>>

\* An object is tagged "book" by either field, or by the field the read consults.
TaggedByEither(msg) == msg.event_type = Some("book") \/ msg.type = Some("book")
TaggedInOrder(msg) ==
    (IF msg.event_type # None THEN msg.event_type ELSE msg.type) = Some("book")

\* Positions <<frame, object>> of the objects that arrive before the
\* connection ends and satisfy Tagged, and the first of them in arrival order.
BookPositions(Tagged(_)) ==
    UNION { { <<i, j>> : j \in { k \in 1..Len(ObjectsOf(c_input.frames[i])) :
                                   Tagged(ObjectsOf(c_input.frames[i])[k]) } } :
            i \in 1..(FirstTerminal - 1) }
FirstPosition(S) ==
    CHOOSE p \in S : \A q \in S : p[1] < q[1] \/ (p[1] = q[1] /\ p[2] <= q[2])

\* What the read must return when Tagged decides which objects are books:
\* the quote of the first book before the connection ends; else an error if
\* the connection ends; else nothing yet.  No skipped frame changes this.
ReadsFirstBook(Tagged(_)) ==
    ReadReturned =>
        LET r == Unwrap(c_result)
            books == BookPositions(Tagged)
        IN  IF books # {}
            THEN LET p == FirstPosition(books)
                     msg == ObjectsOf(c_input.frames[p[1]])[p[2]]
                 IN  /\ r.kind = "ok"
                     /\ r.from = Some(msg)
                     /\ r.market = Some(parse_orderbook(msg))
            ELSE /\ r.kind = IF FirstTerminal <= Len(c_input.frames) THEN "err" ELSE "pending"
                 /\ r.market = None

\* C20 (the claim as stated): read_next_book returns the quote of the first
\* object, in arrival order and array order, that either tag field calls
\* "book"; everything before it is consumed with no error and no quote.
C20_FirstBookByEitherTag == ReadsFirstBook(TaggedByEither)

\* C20 (amended): the first object whose event_type is "book", or whose type
\* is "book" while event_type is no string; an object whose event_type is
\* another string is skipped whatever its type says.
C20_FirstBookByTagOrder == ReadsFirstBook(TaggedInOrder)

\* A read has skipped a ping, text that is no JSON, an object of another type
\* and an untagged object, and returned the first book behind them.
C20_Witness ==
    /\ ReadReturned
    /\ c_input.frames = <<TextNoJson, TextOne(PriceChange), TextArray(<<Untagged, BookB, BookA>>)>>
    /\ Unwrap(c_result).kind = "ok"
    /\ Unwrap(c_result).from = Some(BookB)

\* ---------------------------------------------------------------------------
\* The two cache entries across ticks (checked under Spec)

C22_LastWriteWins ==
    /\ pc \in {"loop", "sleep"} =>
          /\ last_kalshi_market = latest_kalshi
          /\ last_polymarket_market = latest_polymarket
    /\ (TickEnded /\ latest_kalshi # None /\ latest_polymarket # None) =>
          detect_args = Some(<<Unwrap(latest_kalshi), Unwrap(latest_polymarket)>>)

\* A tick has replaced a cached Kalshi market by a fresh one and compared it
\* with a Polymarket quote left from an earlier tick, its own read having
\* failed.
C22_Witness ==
    /\ TickEnded
    /\ pull_outcome = "ok"
    /\ IsSome(prev_kalshi)
    /\ push_outcome = "err"
    /\ detect_args = Some(<<Unwrap(last_kalshi_market), Unwrap(prev_polymarket)>>)

\* The update step of a tick is taken.
UpdateStep == pc = "join" /\ pc' = "sleep"

\* C23: an entry changes in the update step of a tick only, hence at most
\* once per tick, and only to the result of its own venue's successful fetch
\* (read) of that tick.  After the update step the Kalshi entry is decided by
\* the pull branch alone and the Polymarket entry by the push branch alone,
\* whatever the other branch met.
C23_SingleWriterPerVenue ==
    [][/\ last_kalshi_market' # last_kalshi_market =>
             (UpdateStep /\ pull_outcome = "ok" /\ last_kalshi_market' = kalshi_result)
       /\ last_polymarket_market' # last_polymarket_market =>
             (UpdateStep /\ push_outcome = "ok"
                         /\ last_polymarket_market' = polymarket_result)
       /\ UpdateStep =>
             /\ last_kalshi_market' =
                   (IF pull_outcome = "ok" THEN kalshi_result ELSE prev_kalshi)
             /\ last_polymarket_market' =
                   (IF push_outcome = "ok" THEN polymarket_result ELSE prev_polymarket)]_vars

\* A tick whose read failed and whose reconnect failed has stored a Kalshi
\* market that differs from the cached one and left the Polymarket entry alone.
C23_Witness ==
    /\ TickEnded
    /\ pull_outcome = "ok"
    /\ IsSome(prev_kalshi)
    /\ last_kalshi_market # prev_kalshi
    /\ push_outcome = "err" /\ connect_outcome = "err"
    /\ IsSome(prev_polymarket)
    /\ last_polymarket_market = prev_polymarket

\* A branch of the tick that has not completed.
PullRunning == pc = "join" /\ k_pc \in {"gate", "fetch"}
PushRunning == pc = "join" /\ p_pc \in {"read", "reconnect"}

\* C24: inside a tick the pull branch can take its next step (pass the gate
\* and start the fetch) whatever the state of the push branch, and the push
\* branch can take its next step (read, reconnect) whatever the state of the
\* pull branch; the update step can be taken only when both branches have
\* completed, and until then nothing of it has happened.
C24_ConcurrentBranches ==
    /\ (pc = "join" /\ k_pc = "gate") => ENABLED KalshiGate
    /\ (pc = "join" /\ p_pc = "read") => ENABLED PolyRead
    /\ (pc = "join" /\ p_pc = "reconnect") => ENABLED PolyReconnect
    /\ ENABLED Process => (k_pc = "done" /\ p_pc = "done")
    /\ (PullRunning \/ PushRunning) =>
          /\ last_kalshi_market = prev_kalshi
          /\ last_polymarket_market = prev_polymarket
          /\ detect_args = None /\ shown_markets = 0 /\ shown_arb = None

\* The fetch has been started and has not returned while the push branch,
\* after a failed read, is waiting for its reconnect.
C24_Witness ==
    /\ pc = "join"
    /\ k_pc = "fetch" /\ since_attempt = 0
    /\ p_pc = "reconnect" /\ push_outcome = "err"

\* C25: the detector is handed its two quotes in the update step of a tick
\* only, after both branches have completed; the pair it is handed is the
\* pair of cache entries with the tick's results applied, and while that pair
\* stands no entry differs from it.  At the end of a tick with both entries
\* present the detector has been evaluated on them.
C25_TickConsistentSnapshot ==
    [][/\ (IsSome(detect_args') /\ detect_args' # detect_args) =>
             /\ UpdateStep /\ k_pc = "done" /\ p_pc = "done"
             /\ last_kalshi_market' = ProcessUpdate(last_kalshi_market, kalshi_result)
             /\ last_polymarket_market' =
                   ProcessUpdate(last_polymarket_market, polymarket_result)
       /\ IsSome(detect_args') =>
             /\ IsSome(last_kalshi_market') /\ IsSome(last_polymarket_market')
             /\ detect_args' = Some(<<Unwrap(last_kalshi_market'),
                                      Unwrap(last_polymarket_market')>>)
       /\ (pc' = "sleep" /\ IsSome(last_kalshi_market') /\ IsSome(last_polymarket_market'))
             => IsSome(detect_args')]_vars

\* A tick in which both venues delivered, the Kalshi market replacing a
\* different cached one, and the detector was handed the two fresh quotes.
C25_Witness ==
    /\ TickEnded
    /\ pull_outcome = "ok" /\ push_outcome = "ok"
    /\ IsSome(prev_kalshi) /\ IsSome(prev_polymarket)
    /\ prev_kalshi # last_kalshi_market
    /\ prev_polymarket # last_polymarket_market
    /\ detect_args = Some(<<Unwrap(kalshi_result), Unwrap(polymarket_result)>>)

\* get_market is invoked.
FetchInvoked == k_pc # "fetch" /\ k_pc' = "fetch"

\* C26: get_market is invoked only when at least the poll interval has passed
\* since its previous invocation, whatever that one returned, or, for the
\* first invocation, since the loop-start timestamp was taken; the invocation
\* restarts the count.
C26_MinimumPullCadence ==
    [][FetchInvoked =>
          /\ since_attempt >= kalshi_interval
          /\ since_attempt' = 0]_vars

\* With a positive poll interval, get_market is invoked again after an earlier
\* invocation that succeeded.
C26_Witness ==
    /\ pc = "join" /\ k_pc = "fetch"
    /\ kalshi_interval > 0
    /\ since_attempt = 0
    /\ IsSome(latest_kalshi)

\* Steps of the push branch: the bounded read returns, the inline connect()
\* returns, the first connect() returns.
ReadStep == pc = "join" /\ p_pc = "read" /\ p_pc' # "read"
ReconnectStep == pc = "join" /\ p_pc = "reconnect" /\ p_pc' # "reconnect"
FirstConnectStep == pc = "connect" /\ pc' # "connect"

\* C27: the handle becomes a live connection only by a connect() that
\* succeeded, never by a read, and a connect() that failed leaves it as it
\* was.  A tick that starts with a dead handle reads from that handle, the
\* read fails, and exactly one connect() follows in that tick, however many
\* ticks before did the same; a tick makes one connect() after a failed read
\* and none otherwise.
C27_NoAutoHealRetryEveryTick ==
    [][/\ (ws_stream' = "open" /\ ws_stream # "open") =>
             ((ReconnectStep \/ FirstConnectStep) /\ ~ReadStep)
       /\ ReadStep => ws_stream' \in {ws_stream, "dead"}
       /\ (ReconnectStep /\ connect_outcome' = "err") => ws_stream' = ws_stream
       /\ (ReconnectStep /\ connect_outcome' = "ok") => ws_stream' = "open"
       /\ (pc' = "join" /\ p_pc' = "read") => ws_stream' = prev_ws_stream'
       /\ (ReadStep /\ ws_stream = "dead") => (push_outcome' = "err" /\ p_pc' = "reconnect")
       /\ pc' = "sleep" =>
             /\ connect_calls' = (IF push_outcome' = "err" THEN 1 ELSE 0)
             /\ prev_ws_stream' = "dead" => push_outcome' = "err"]_vars

\* A tick that started with a dead handle: its read failed, its one connect()
\* succeeded, and the handle is a live connection for the next tick.
C27_Witness ==
    /\ TickEnded
    /\ prev_ws_stream = "dead"
    /\ push_outcome = "err"
    /\ connect_calls = 1 /\ connect_outcome = "ok"
    /\ ws_stream = "open"

\* C28: the handle the client holds, live or dead, belongs to a connection on
\* which exactly one message has been sent, the subscription (empty auth, the
\* client's asset id, type MARKET); it was sent by the connect() that installed
\* the handle, so before any read on it.  A connect() that fails, in opening
\* the connection or in sending the subscription, returns an error and leaves
\* the handle and what was sent on it as they were.
C28_SubscriptionOncePerConnect ==
    [][/\ ws_stream' \in {"open", "dead"} =>
             /\ asset_id' \in AssetIds
             /\ sent' = <<[auth |-> {}, assets_ids |-> <<asset_id'>>, type |-> "MARKET"]>>
       /\ ws_stream' = "none" => sent' = <<>>
       /\ sent' # sent => (ReconnectStep \/ FirstConnectStep)
       /\ (ReconnectStep /\ connect_outcome' = "ok") =>
             (ws_stream' = "open" /\ Len(sent') = 1)
       /\ (ReconnectStep /\ connect_outcome' = "err") =>
             (ws_stream' = ws_stream /\ sent' = sent /\ "Reconnect failed" \in reported')
       /\ (FirstConnectStep /\ pc' = "exited") =>
             (ws_stream' = ws_stream /\ sent' = sent)
       /\ (FirstConnectStep /\ pc' = "loop") =>
             (ws_stream' = "open" /\ Len(sent') = 1)
       /\ ReadStep => sent' = sent]_vars

\* A reconnect has succeeded on a client whose handle was dead: the new
\* connection carries the one subscription and no read has been made on it.
C28_Witness ==
    /\ pc = "join" /\ p_pc = "done"
    /\ prev_ws_stream = "dead"
    /\ connect_calls = 1 /\ connect_outcome = "ok"
    /\ ws_stream = "open"
    /\ Len(sent) = 1

\* ---------------------------------------------------------------------------
\* Properties of parse_orderbook (checked under SpecParse)

Parsed == c_pc = "parsed"

\* The price the normalizer works with: the parsed price, 0.0 for a string
\* the parse rejects.
PriceOf(level) == unwrap_or(parse_f64(level.price), 0)

\* f64 comparisons: false when an operand is NaN.
F64Less(a, b) == a # NaN /\ b # NaN /\ a < b
F64Equal(a, b) == a # NaN /\ b # NaN /\ a = b

IsPermutationOf(out, in) ==
    /\ Len(out) = Len(in)
    /\ \E f \in Permutations(DOMAIN in) : \A i \in DOMAIN in : out[i] = in[f[i]]

\* No level stands before a level that the order puts strictly first.
SortedDescending(levels) ==
    \A i, j \in DOMAIN levels : i < j => ~F64Less(PriceOf(levels[i]), PriceOf(levels[j]))
SortedAscending(levels) ==
    \A i, j \in DOMAIN levels : i < j => ~F64Less(PriceOf(levels[j]), PriceOf(levels[i]))

\* Levels of equal price stand in their arrival order.
ArrivalOrderKept(levels) ==
    \A i, j \in DOMAIN levels :
        (i < j /\ F64Equal(PriceOf(levels[i]), PriceOf(levels[j])))
            => levels[i].size < levels[j].size

FirstPriceOrZero(levels) == IF levels = <<>> THEN 0 ELSE PriceOf(levels[1])

\* C29 (the claim as stated): for any book message the output bids are the
\* input bids in descending order of parsed price and the output asks the
\* input asks in ascending order, levels of equal price in arrival order, and
\* best_bid / best_ask are the price of the first level of their side, 0.0
\* when the side is empty.
C29_NormalizerOrdering ==
    Parsed =>
        LET quote == Unwrap(c_result)
        IN  /\ IsPermutationOf(quote.bids, c_input.bids.levels)
            /\ IsPermutationOf(quote.asks, c_input.asks.levels)
            /\ SortedDescending(quote.bids) /\ ArrivalOrderKept(quote.bids)
            /\ SortedAscending(quote.asks) /\ ArrivalOrderKept(quote.asks)
            /\ quote.best_bid = FirstPriceOrZero(quote.bids)
            /\ quote.best_ask = FirstPriceOrZero(quote.asks)

Unparsable(level) == ~level.price.ok
HasUnparsable(levels) == \E i \in DOMAIN levels : Unparsable(levels[i])

\* C30 (the claim as stated): when a level's price string cannot be parsed,
\* the quote is still produced with every level of the message in it, each
\* side in order with that level counted at price 0.0; an unparsable ask
\* stands before every ask of another price and best_ask is 0.0.
C30_FailSoftParse ==
    (Parsed /\ (HasUnparsable(c_input.bids.levels) \/ HasUnparsable(c_input.asks.levels))) =>
        LET quote == Unwrap(c_result)
        IN  /\ IsPermutationOf(quote.bids, c_input.bids.levels)
            /\ IsPermutationOf(quote.asks, c_input.asks.levels)
            /\ SortedDescending(quote.bids)
            /\ SortedAscending(quote.asks)
            /\ \A k \in DOMAIN quote.asks :
                   Unparsable(quote.asks[k]) =>
                       /\ \A i \in 1..(k - 1) : F64Equal(PriceOf(quote.asks[i]), 0)
                       /\ quote.best_ask = 0

\* ---------------------------------------------------------------------------
\* Properties of display_markets (checked under SpecDisplay)

Displayed == c_pc = "displayed"
HasDepth == IsSome(c_input.kalshi.orderbook)
RawYes == Unwrap(c_input.kalshi.orderbook).yes
RawNo == Unwrap(c_input.kalshi.orderbook).no

\* The lines Bid #i and Ask #i of the table, and the Kalshi level each shows
\* as <<price in hundredths, size>>.
BidLine(i) == Unwrap(c_result).bids[i]
AskLine(i) == Unwrap(c_result).asks[DisplayDepth + 1 - i]
ShownBids == { i \in 1..DisplayDepth : IsSome(BidLine(i).k_price) }
ShownAsks == { i \in 1..DisplayDepth : IsSome(AskLine(i).k_price) }
KalshiCell(line) == <<Unwrap(line.k_price), Unwrap(line.k_vol)>>

\* The levels of a side as bids at price/100 and as asks at (100 - price)/100,
\* sizes unchanged.
AsBids(levels) == { <<levels[k][1], levels[k][2]>> : k \in DOMAIN levels }
AsAsks(levels) == { <<100 - levels[k][1], levels[k][2]>> : k \in DOMAIN levels }

\* The lines are numbered as they are filled: a line is empty only below
\* every filled line of its side, and no two lines show the same level.
FilledInOrder(shown, lines) ==
    /\ \A i \in shown : \A j \in 1..i : j \in shown
    /\ \A i, j \in shown : i # j => KalshiCell(lines[i]) # KalshiCell(lines[j])

BidLines == [i \in 1..DisplayDepth |-> BidLine(i)]
AskLines == [i \in 1..DisplayDepth |-> AskLine(i)]

BidsDescending ==
    \A i, j \in ShownBids : i < j => KalshiCell(BidLine(i))[1] >= KalshiCell(BidLine(j))[1]
AsksAscending ==
    \A i, j \in ShownAsks : i < j => KalshiCell(AskLine(i))[1] <= KalshiCell(AskLine(j))[1]

\* The summary line is computed from best_bid = yes_bid/100 and
\* best_ask = yes_ask/100.
BestFromMarket ==
    /\ Unwrap(c_result).p_to_k * 100 =
           c_input.kalshi.yes_bid * Scale - c_input.polymarket.best_ask * 100
    /\ Unwrap(c_result).k_to_p * 100 =
           c_input.polymarket.best_bid * 100 - c_input.kalshi.yes_ask * Scale

\* C31 (the claim as stated): for any raw book, the yes levels are shown as
\* bids in descending price order and each no level at price P is shown as an
\* ask at (100 - P)/100 with its size, the asks in ascending price order;
\* best_bid and best_ask are yes_bid/100 and yes_ask/100.
C31_EveryLevelPresented ==
    (Displayed /\ HasDepth) =>
        /\ FilledInOrder(ShownBids, BidLines)
        /\ { KalshiCell(BidLine(i)) : i \in ShownBids } = AsBids(RawYes)
        /\ BidsDescending
        /\ FilledInOrder(ShownAsks, AskLines)
        /\ { KalshiCell(AskLine(i)) : i \in ShownAsks } = AsAsks(RawNo)
        /\ AsksAscending
        /\ BestFromMarket

\* `shown` are DisplayDepth of the levels `all`, or all of them when there are
\* fewer, every level left out being priced no better than each one shown
\* (better: higher for bids, lower for asks).
BestOf(shown, all, higher_is_better) ==
    /\ shown \subseteq all
    /\ Cardinality(shown) = Min(DisplayDepth, Cardinality(all))
    /\ \A out \in all \ shown : \A in \in shown :
           IF higher_is_better THEN out[1] <= in[1] ELSE out[1] >= in[1]

\* C31 (amended): for any raw book, the five highest-priced yes levels (all of
\* them when there are fewer) are shown as bids in descending price order, and
\* each of the five highest-priced no levels at price P is shown as an ask at
\* (100 - P)/100 with its size, the asks in ascending price order; best_bid
\* and best_ask are yes_bid/100 and yes_ask/100.
C31_FiveBestLevelsPresented ==
    (Displayed /\ HasDepth) =>
        /\ FilledInOrder(ShownBids, BidLines)
        /\ BestOf({ KalshiCell(BidLine(i)) : i \in ShownBids }, AsBids(RawYes),
                  TRUE)
        /\ BidsDescending
        /\ FilledInOrder(ShownAsks, AskLines)
        /\ BestOf({ KalshiCell(AskLine(i)) : i \in ShownAsks }, AsAsks(RawNo),
                  FALSE)
        /\ AsksAscending
        /\ BestFromMarket

\* A book of more no levels than the table has lines, not in price order, has
\* been displayed: Ask #1 is 0.55, the first no level at 45, and the no level
\* at 38 that arrived first is shown at 0.62.
C31_Witness ==
    /\ Displayed /\ HasDepth
    /\ Len(RawNo) = MaxDepth
    /\ RawNo[1] = <<38, 1>> /\ RawNo[2] = <<45, 2>>
    /\ KalshiCell(AskLine(1)) = <<55, 2>>
    /\ \E i \in ShownAsks : KalshiCell(AskLine(i)) = <<62, 1>>
    /\ Cardinality(ShownAsks) = DisplayDepth

====
